---------------------------- MODULE Spec2Model ----------------------------
(***************************************************************************)
(* Model of the click-to-zoom post-processor of DemoRecorder:              *)
(*   - the keyframe compiler      (zoom/post_process.rs generate_keyframes)*)
(*   - the camera interpolator    (calculate_camera_at_time)               *)
(*   - the transcode pipeline     (apply_zoom_effects)                     *)
(*                                                                         *)
(* Numbers.  The code computes in f32 seconds.  The model computes in      *)
(* exact rationals <<numerator, denominator>> and measures time in ticks   *)
(* of 1/TicksPerSec second, so that every timestamp and duration used is   *)
(* an integer number of ticks.  f32 rounding is not modelled.              *)
(***************************************************************************)
EXTENDS Integers, Sequences, FiniteSets, TLC

(***************************************************************************)
(* Bounds of the model                                                     *)
(***************************************************************************)
MaxEvents == 3          \* longest event log of the compiler specification
MaxJobEvents == 2       \* longest event log of a post-process job
MaxFrames == 3
\* the live logger: clock ticks per behaviour, events per log
MaxClockSteps == 4
MaxLogged == 2
\* motion health: frames before the oscillating tail, and frames of the tail
MaxPrefix == 2
MaxZig == 15
\* hotkey: calls on the toggle flag per behaviour
MaxHotkeyOps == 7
\* recorder: capture threads spawned per behaviour
MaxSessions == 2          \* most frames the decoder yields in one job

(***************************************************************************)
(* Units                                                                   *)
(***************************************************************************)
TicksPerSec == 20       \* one tick is 50 ms
MsPerSec == 1000

(***************************************************************************)
(* Exact rational arithmetic standing for f32 arithmetic                   *)
(***************************************************************************)
RECURSIVE GCD(_, _)
GCD(a, b) == IF b = 0 THEN a ELSE GCD(b, a % b)

AbsInt(a) == IF a < 0 THEN -a ELSE a

Norm(n, d) ==
    LET s == IF d < 0 THEN -1 ELSE 1
        g == GCD(AbsInt(n), AbsInt(d))
    IN  <<(s * n) \div g, (s * d) \div g>>

R(n) == <<n, 1>>
RAdd(a, b) == Norm(a[1] * b[2] + b[1] * a[2], a[2] * b[2])
RSub(a, b) == Norm(a[1] * b[2] - b[1] * a[2], a[2] * b[2])
RMul(a, b) == Norm(a[1] * b[1], a[2] * b[2])
RDiv(a, b) == Norm(a[1] * b[2], a[2] * b[1])
RLt(a, b) == a[1] * b[2] < b[1] * a[2]
RLe(a, b) == a[1] * b[2] <= b[1] * a[2]
RMin(a, b) == IF RLt(b, a) THEN b ELSE a
RAbs(a) == <<AbsInt(a[1]), a[2]>>
RClamp01(a) == IF RLt(a, R(0)) THEN R(0) ELSE IF RLt(R(1), a) THEN R(1) ELSE a

Half == <<1, 2>>


(***************************************************************************)
(* Event log and configuration                                             *)
(*   event  : [kind, x, y, timestamp_ms]   kind is "Click" or "CursorMove" *)
(*   log    : [metadata |-> [width, height], events |-> sequence]          *)
(*   config : [zoom_level (rational), zoom_duration, hold_duration (ticks)]*)
(***************************************************************************)
Click(x, y, ts) == [kind |-> "Click", x |-> x, y |-> y, timestamp_ms |-> ts]
CursorMove(x, y, ts) == [kind |-> "CursorMove", x |-> x, y |-> y, timestamp_ms |-> ts]

\* `timestamp_ms as f32 / 1000.0`, in ticks
SecsOfMs(ms) == (ms * TicksPerSec) \div MsPerSec

\* PostProcessConfig::default(): zoom_level 1.5, zoom_duration 0.3 s, hold_duration 2.0 s
DefaultConfig ==
    [zoom_level |-> <<3, 2>>, zoom_duration |-> 6, hold_duration |-> 40]

(***************************************************************************)
(* Keyframe compiler                                                       *)
(***************************************************************************)
\* variant: the zoom-out time is not counted in end_time
ClickKeyframeShort(e, log, config) ==
    LET start_time == SecsOfMs(e.timestamp_ms)
    IN  [start_time |-> start_time,
         end_time   |-> start_time + config.hold_duration + config.zoom_duration,
         center_x   |-> RClamp01(Norm(e.x, log.metadata.width)),
         center_y   |-> RClamp01(Norm(e.y, log.metadata.height)),
         zoom       |-> config.zoom_level]

\* the body of the `if let RecordedEvent::Click` arm of generate_keyframes
ClickKeyframe(e, log, config) ==
    LET start_time == SecsOfMs(e.timestamp_ms)
    IN  [start_time |-> start_time,
         end_time   |-> start_time + config.hold_duration + config.zoom_duration * 2,
         center_x   |-> RClamp01(Norm(e.x, log.metadata.width)),
         center_y   |-> RClamp01(Norm(e.y, log.metadata.height)),
         zoom       |-> config.zoom_level]

\* the `for event in &log.events` loop: one keyframe per Click, in log order
RawKeyframes(log, config) ==
    LET clicks == SelectSeq(log.events, LAMBDA e : e.kind = "Click")
    IN  [i \in 1..Len(clicks) |-> ClickKeyframe(clicks[i], log, config)]

\* insert kf behind every element whose start_time is not larger (stable)
RECURSIVE InsertByStart(_, _)
InsertByStart(sorted, kf) ==
    IF sorted = <<>> THEN <<kf>>
    ELSE IF sorted[Len(sorted)].start_time <= kf.start_time THEN Append(sorted, kf)
    ELSE Append(InsertByStart(SubSeq(sorted, 1, Len(sorted) - 1), kf), sorted[Len(sorted)])

\* keyframes.sort_by(|a, b| a.start_time.partial_cmp(&b.start_time)): a stable sort
RECURSIVE SortByStart(_)
SortByStart(kfs) ==
    IF kfs = <<>> THEN <<>>
    ELSE InsertByStart(SortByStart(SubSeq(kfs, 1, Len(kfs) - 1)), kfs[Len(kfs)])

\* variant: the overlap test is missing
TruncateAlways(kfs, i) == [kfs EXCEPT ![i].end_time = kfs[i + 1].start_time]

\* variant: the earlier keyframe is cut one tick after the next one starts
TruncateLate(kfs, i) ==
    IF kfs[i].end_time > kfs[i + 1].start_time
    THEN [kfs EXCEPT ![i].end_time = kfs[i + 1].start_time + 1]
    ELSE kfs

\* one iteration of the sequential-pathing loop
TruncateAt(kfs, i) ==
    IF kfs[i].end_time > kfs[i + 1].start_time
    THEN [kfs EXCEPT ![i].end_time = kfs[i + 1].start_time]
    ELSE kfs

\* `for i in 0..keyframes.len() - 1`
RECURSIVE TruncateLoop(_, _)
TruncateLoop(kfs, i) ==
    IF i > Len(kfs) - 1 THEN kfs ELSE TruncateLoop(TruncateAt(kfs, i), i + 1)

\* variant: the truncation pass run on the unsorted sequence
merge_without_sort(kfs) ==
    IF Len(kfs) < 2 THEN kfs ELSE TruncateLoop(kfs, 1)

merge_overlapping_keyframes(kfs) ==
    IF Len(kfs) < 2 THEN kfs ELSE TruncateLoop(SortByStart(kfs), 1)

generate_keyframes(log, config) ==
    merge_overlapping_keyframes(RawKeyframes(log, config))

(***************************************************************************)
(* Camera interpolator                                                     *)
(***************************************************************************)
\* variant: the first branch of the cubic is used for every t
ease_in_only(t) == RMul(R(4), RMul(t, RMul(t, t)))

\* cubic ease in/out
ease_in_out(t) ==
    IF RLt(t, Half)
    THEN RMul(R(4), RMul(t, RMul(t, t)))
    ELSE LET u == RAdd(RMul(R(-2), t), R(2))
         IN  RSub(R(1), RDiv(RMul(u, RMul(u, u)), R(2)))

EventTime(e) == SecsOfMs(e.timestamp_ms)

\* index of the event at which the scan of get_cursor_pos_at breaks
\* (the first event, in log order, that is later than time_secs), 0 if none
NextEventIdx(time_secs, events) ==
    LET later == {i \in 1..Len(events) : EventTime(events[i]) > time_secs}
    IN  IF later = {} THEN 0 ELSE CHOOSE i \in later : \A j \in later : i <= j

get_cursor_pos_at(time_secs, log) ==
    LET ev == log.events
        w  == log.metadata.width
        h  == log.metadata.height
        n  == NextEventIdx(time_secs, ev)
        \* prev_event is the event scanned last before the break
        p  == IF n = 0 THEN Len(ev) ELSE n - 1
    IN  IF ev = <<>> THEN <<Half, Half>>
        ELSE IF p > 0 /\ n > 0 THEN
            LET pt == EventTime(ev[p])
                nt == EventTime(ev[n])
            IN  IF nt > pt
                THEN LET t == Norm(time_secs - pt, nt - pt)
                         x == RAdd(R(ev[p].x), RMul(R(ev[n].x - ev[p].x), t))
                         y == RAdd(R(ev[p].y), RMul(R(ev[n].y - ev[p].y), t))
                     IN  <<RDiv(x, R(w)), RDiv(y, R(h))>>
                ELSE <<Norm(ev[p].x, w), Norm(ev[p].y, h)>>
        ELSE IF p > 0 THEN <<Norm(ev[p].x, w), Norm(ev[p].y, h)>>
        ELSE <<Norm(ev[n].x, w), Norm(ev[n].y, h)>>

\* the test of the keyframe search: time_secs >= kf.start_time && time_secs <= kf.end_time
\* variant: the window stays open one tick longer
InWindowLate(time_secs, kf) == time_secs >= kf.start_time /\ time_secs <= kf.end_time + 1

InWindow(time_secs, kf) == time_secs >= kf.start_time /\ time_secs <= kf.end_time

\* the keyframe search with its `break`: the first matching index, 0 for None
current_idx(time_secs, keyframes) ==
    LET m == {i \in 1..Len(keyframes) : InWindow(time_secs, keyframes[i])}
    IN  IF m = {} THEN 0 ELSE CHOOSE i \in m : \A j \in m : i <= j

\* the pose returned when no keyframe matches
NeutralState ==
    [zoom |-> R(1), cx |-> Half, cy |-> Half, target_cx |-> Half, target_cy |-> Half,
     mouse_cx |-> Half, mouse_cy |-> Half]

zoom_in_end(kf, config) == kf.start_time + config.zoom_duration

\* variant: the hold phase is skipped
hold_end_without_hold(kf, config) ==
    LET a == zoom_in_end(kf, config)
    IN  IF kf.end_time < a THEN kf.end_time ELSE a

hold_end(kf, config) ==
    LET a == zoom_in_end(kf, config) + config.hold_duration
    IN  IF kf.end_time < a THEN kf.end_time ELSE a

\* variant: the zoom-in ramps from 0 instead of 1.0
ZoomFromZero(time_secs, kf, config) ==
    LET zie == zoom_in_end(kf, config)
        he  == hold_end(kf, config)
        amp == RSub(kf.zoom, R(1))
    IN  IF time_secs < zie
        THEN RMul(kf.zoom, ease_in_out(Norm(time_secs - kf.start_time, config.zoom_duration)))
        ELSE IF time_secs < he THEN kf.zoom
        ELSE RSub(kf.zoom,
                  RMul(amp, ease_in_out(RClamp01(Norm(time_secs - he, config.zoom_duration)))))

\* the zoom interpolation of a matching keyframe
ZoomIn(time_secs, kf, config) ==
    LET zie == zoom_in_end(kf, config)
        he  == hold_end(kf, config)
        amp == RSub(kf.zoom, R(1))
    IN  IF time_secs < zie
        THEN RAdd(R(1), RMul(amp, ease_in_out(Norm(time_secs - kf.start_time, config.zoom_duration))))
        ELSE IF time_secs < he THEN kf.zoom
        ELSE RSub(kf.zoom,
                  RMul(amp, ease_in_out(RClamp01(Norm(time_secs - he, config.zoom_duration)))))

\* variant: every pan starts from the screen centre
PanStartFromMiddle(idx, keyframes) == <<Half, Half>>

\* (start_cx, start_cy): the centre of the previous keyframe, or the screen centre
PanStart(idx, keyframes) ==
    IF idx > 1 THEN <<keyframes[idx - 1].center_x, keyframes[idx - 1].center_y>>
    ELSE <<Half, Half>>

\* the centre before the cursor-follow drift
PanCentre(time_secs, idx, keyframes, config) ==
    LET kf == keyframes[idx]
        s  == PanStart(idx, keyframes)
        e  == ease_in_out(RClamp01(Norm(time_secs - kf.start_time, config.zoom_duration)))
    IN  <<RAdd(s[1], RMul(RSub(kf.center_x, s[1]), e)),
          RAdd(s[2], RMul(RSub(kf.center_y, s[2]), e))>>

\* variant: the drift is still applied at hold_end
DriftThroughHoldEnd(time_secs, kf, config) ==
    time_secs > zoom_in_end(kf, config) /\ time_secs <= hold_end(kf, config)

\* the guard of the cursor-follow block
DriftApplies(time_secs, kf, config) ==
    time_secs > zoom_in_end(kf, config) /\ time_secs < hold_end(kf, config)

\* variant: the fade-in is not capped at 1
follow_weight_uncapped(time_secs, kf, config) ==
    LET zie    == zoom_in_end(kf, config)
        hold_t == Norm(time_secs - zie, hold_end(kf, config) - zie)
    IN  RMul(RMul(hold_t, R(5)), <<35, 100>>)

follow_weight(time_secs, kf, config) ==
    LET zie    == zoom_in_end(kf, config)
        hold_t == Norm(time_secs - zie, hold_end(kf, config) - zie)
    IN  RMul(RMin(RMul(hold_t, R(5)), R(1)), <<35, 100>>)

calculate_camera_at_time(time_secs, keyframes, log, config) ==
    LET idx == current_idx(time_secs, keyframes)
    IN  IF idx = 0 THEN NeutralState
        ELSE LET kf    == keyframes[idx]
                 c     == PanCentre(time_secs, idx, keyframes, config)
                 mouse == get_cursor_pos_at(time_secs, log)
                 drift == DriftApplies(time_secs, kf, config)
                 fw    == IF drift THEN follow_weight(time_secs, kf, config) ELSE R(0)
             IN  [zoom      |-> ZoomIn(time_secs, kf, config),
                  cx        |-> IF drift THEN RAdd(c[1], RMul(RSub(mouse[1], c[1]), fw)) ELSE c[1],
                  cy        |-> IF drift THEN RAdd(c[2], RMul(RSub(mouse[2], c[2]), fw)) ELSE c[2],
                  target_cx |-> kf.center_x,
                  target_cy |-> kf.center_y,
                  mouse_cx  |-> mouse[1],
                  mouse_cy  |-> mouse[2]]


(***************************************************************************)
(* State                                                                   *)
(***************************************************************************)
VARIABLES
    log,          \* the EventLog handed to the compiler / the job
    config,       \* the PostProcessConfig
    keyframes,    \* the compiled keyframe sequence
    rawKeyframes, \* compiler specification: the keyframes before the sequentializing pass
    camPc,        \* compiler specification: "input", "compiled", "evaluated" ("off" in a job)
    camT,         \* the playback time of the last camera evaluation
    camIdx,       \* the keyframe index picked by that evaluation (0: none)
    camState,     \* the CameraState it returned
    pc,           \* position of apply_zoom_effects ("idle" outside a job)
    audit,        \* milestones written to the audit log, in order
    outputFile,   \* "absent", "open" (created by the encoder, not finished),
                  \* "finalized", "copied" (identical to the input), "partial_copy"
    encoder,      \* "none", "open", "finished"
    gpu,          \* "none", "ready", "lost" (a map of the output buffer has failed)
    stream,       \* the items the decoder iterator has yielded so far, in order
    processed,    \* the `processed` counter
    current,      \* [zoom, cx, cy]: current_zoom, current_cx, current_cy
    telemetry,    \* telemetry.frames
    encCalls,     \* the calls of encoder.encode, in order
    telemetryFile,\* "absent", "saved"
    result,       \* "running", "ok", "err"
    cause,        \* the step whose error the job returned ("none" if none)
    uniforms,     \* the RenderUniforms handed to process_frame, in order
    eventsFile,   \* the events file: <<>> while absent, else <<its JSON document>>
    loaded,       \* <<>>, or <<what the last load of the events file returned>>
    now,          \* the monotonic clock (Instant::now()), in milliseconds
    logger,       \* EVENTS_LOG: <<>> for None, else <<the EventLoggerState>>
    returned,     \* the events returned by the last stop_event_logging
    session,      \* the frames (cx, cy in thousandths) of the analysed TelemetrySession
    healthPc,     \* "idle", "loaded", "analysed"
    velocity_spikes,
    jitter_events,
    verdict,      \* "none", "warn", "good"
    hotkeyFlag,   \* HOTKEY_TOGGLE_REQUESTED
    hkTrace,      \* the calls on the flag so far: "request", "take_true", "take_false"
    isRec,        \* the is_rec signal of the App
    IS_RECORDING, \* the global recording flag of the recorder
    sessions,     \* the capture threads spawned so far, oldest first
    eventLogging, \* EVENTS_LOG holds a logger
    samples,      \* kinds of events sampled since the last start: "live", "after_end"
    recFacts      \* what has happened in some capture thread so far

camVars == <<rawKeyframes, camPc, camT, camIdx, camState>>
jobVars == <<pc, audit, outputFile, encoder, gpu, stream, processed, current,
             telemetry, encCalls, telemetryFile, result, cause, uniforms>>
fileVars == <<eventsFile, loaded>>
loggerVars == <<now, logger, returned>>
healthVars == <<session, healthPc, velocity_spikes, jitter_events, verdict>>
hotkeyVars == <<hotkeyFlag, hkTrace, isRec>>
recorderVars == <<IS_RECORDING, sessions, eventLogging, samples, recFacts>>
extVars == <<fileVars, loggerVars, healthVars, hotkeyVars, recorderVars>>
\* what the event-log, logger and motion-health operations leave alone
base == <<log, config, keyframes, camVars, jobVars>>
vars == <<base, extVars>>

(***************************************************************************)
(* Inputs                                                                  *)
(***************************************************************************)
Resolution == [width |-> 1920, height |-> 1080]

\* click instants: 1.0 s and 1.5 s overlap, 5.0 s lies after both have ended
TsChoices == {1000, 1500, 5000}
\* the screen centre, an off-centre position and one outside the recorded resolution
PosChoices == {<<960, 540>>, <<480, 1080>>, <<3840, -540>>}

EventChoices ==
    {Click(p[1], p[2], ts) : p \in PosChoices, ts \in TsChoices}
    \cup {CursorMove(960, 270, ts) : ts \in TsChoices}

RECURSIVE SeqsUpTo(_, _)
SeqsUpTo(S, n) ==
    IF n = 0 THEN {<<>>}
    ELSE LET shorter == SeqsUpTo(S, n - 1)
         IN  shorter \cup {Append(q, e) : q \in {r \in shorter : Len(r) = n - 1}, e \in S}

\* the default timing, and one without hold phase and with a stronger zoom
ConfigChoices ==
    {DefaultConfig, [zoom_level |-> <<2, 1>>, zoom_duration |-> 6, hold_duration |-> 0]}

\* the configurations of the camera specification: those above and one whose
\* zoom-in outlasts the gap between two clicks
CamConfigChoices ==
    ConfigChoices \cup {[zoom_level |-> <<2, 1>>, zoom_duration |-> 16, hold_duration |-> 0]}

\* playback times (ticks) at which the camera is evaluated
Times == {0, 20, 23, 26, 30, 33, 36, 40, 66, 69, 72, 76, 82, 100, 152, 153}

JobIdle ==
    /\ pc = "idle" /\ audit = <<>> /\ outputFile = "absent" /\ encoder = "none"
    /\ gpu = "none" /\ stream = <<>> /\ processed = 0
    /\ current = [zoom |-> R(1), cx |-> Half, cy |-> Half]
    /\ telemetry = <<>> /\ encCalls = <<>> /\ telemetryFile = "absent"
    /\ result = "running" /\ cause = "none" /\ uniforms = <<>>

CamIdle ==
    /\ keyframes = <<>> /\ rawKeyframes = <<>>
    /\ camPc = "off" /\ camT = -1 /\ camIdx = 0 /\ camState = NeutralState

FileIdle == eventsFile = <<>> /\ loaded = <<>>

LoggerIdle == now = 0 /\ logger = <<>> /\ returned = <<>>

HotkeyIdle == hotkeyFlag = FALSE /\ hkTrace = <<>> /\ isRec = FALSE

RecorderIdle ==
    /\ IS_RECORDING = FALSE /\ sessions = <<>>
    /\ eventLogging = FALSE /\ samples = {} /\ recFacts = {}

HealthIdle ==
    /\ session = <<>> /\ healthPc = "idle"
    /\ velocity_spikes = 0 /\ jitter_events = 0 /\ verdict = "none"

(***************************************************************************)
(* Specification of the compiler and the interpolator (pure functions)     *)
(***************************************************************************)
InitCam ==
    /\ log \in [metadata : {Resolution}, events : SeqsUpTo(EventChoices, MaxEvents)]
    /\ config \in CamConfigChoices
    /\ keyframes = <<>> /\ rawKeyframes = <<>>
    /\ camPc = "input" /\ camT = -1 /\ camIdx = 0 /\ camState = NeutralState
    /\ JobIdle
    /\ FileIdle /\ LoggerIdle /\ HealthIdle /\ HotkeyIdle /\ RecorderIdle

Compile ==
    /\ camPc = "input"
    /\ rawKeyframes' = RawKeyframes(log, config)
    /\ keyframes' = generate_keyframes(log, config)
    /\ camPc' = "compiled"
    /\ UNCHANGED <<log, config, camT, camIdx, camState, jobVars, extVars>>

\* one call of the interpolator on the compiled keyframes; the function is
\* pure, so every call starts from the compiled state
Evaluate(t) ==
    /\ camPc = "compiled"
    /\ camT' = t
    /\ camIdx' = current_idx(t, keyframes)
    /\ camState' = calculate_camera_at_time(t, keyframes, log, config)
    /\ camPc' = "evaluated"
    /\ UNCHANGED <<log, config, keyframes, rawKeyframes, jobVars, extVars>>

NextCam == Compile \/ \E t \in Times : Evaluate(t)

SpecCam == InitCam /\ [][NextCam]_vars


(***************************************************************************)
(* Claims about the compiled keyframe sequence                             *)
(***************************************************************************)
SortedByStart(kfs) ==
    \A i \in 1..Len(kfs) - 1 : kfs[i].start_time <= kfs[i + 1].start_time

Sequential(kfs) ==
    \A i \in 1..Len(kfs) - 1 : kfs[i].end_time <= kfs[i + 1].start_time

ClickTimes(l) ==
    LET clicks == SelectSeq(l.events, LAMBDA e : e.kind = "Click")
    IN  [i \in 1..Len(clicks) |-> clicks[i].timestamp_ms]

MatchingAt(t, kfs) == {i \in 1..Len(kfs) : InWindow(t, kfs[i])}

\* C1: whatever the event log (any number of clicks, in any timestamp order,
\* equal timestamps included), the sequence returned by generate_keyframes is
\* sorted by start_time and every adjacent pair satisfies end_i <= start_{i+1}.
C1_SortedSequential ==
    camPc # "input" => SortedByStart(keyframes) /\ Sequential(keyframes)

\* a compiled log whose clicks were out of time order, with two clicks at the
\* same instant and a keyframe that had to be cut short
C1_Witness ==
    /\ camPc = "compiled"
    /\ Len(keyframes) = 3
    /\ \E i \in 1..2 : ClickTimes(log)[i] > ClickTimes(log)[i + 1]
    /\ \E i \in 1..2 : keyframes[i].start_time = keyframes[i + 1].start_time
    /\ \E i \in 1..2 : keyframes[i].end_time - keyframes[i].start_time
                          < config.hold_duration + 2 * config.zoom_duration

\* C2 as stated: at every playback time at most one keyframe of the compiled
\* sequence satisfies start_time <= t <= end_time.
C2_AtMostOneMatch ==
    camPc # "input" => \A t \in Times : Cardinality(MatchingAt(t, keyframes)) <= 1

\* C2 amended: two keyframes match the same playback time only at the single
\* instant where the earlier one ends and the later one starts, and the
\* interpolator then uses the earlier one (the first match in sequence order).
C2_MatchOnlyAtHandover ==
    camPc = "evaluated" =>
        \A i \in MatchingAt(camT, keyframes) :
            /\ camIdx \in MatchingAt(camT, keyframes)
            /\ i # camIdx =>
                  /\ camIdx < i
                  /\ keyframes[camIdx].end_time = camT
                  /\ keyframes[i].start_time = camT

\* the camera was evaluated at the start of a keyframe that cut its predecessor
\* short: both match and the predecessor was picked
C2_Witness ==
    /\ camPc = "evaluated"
    /\ Cardinality(MatchingAt(camT, keyframes)) = 2
    /\ camIdx = 1
    /\ keyframes[1].start_time < camT


(***************************************************************************)
(* The transcode pipeline: apply_zoom_effects                              *)
(*                                                                         *)
(* Every fallible call of the function is a step with an outcome chosen    *)
(* by the environment (file system, decoder, encoder, GPU).  One iteration *)
(* of the frame loop is one step.  The progress messages printed every     *)
(* 100th / 30th frame are not modelled.                                    *)
(***************************************************************************)
JobEventChoices ==
    {Click(480, 1080, 1000), Click(3840, -540, 1500), CursorMove(960, 270, 1200)}

\* presentation times (ticks) a decoded frame may carry
FrameTimes == {10, 20, 40, 75, 90, 95}

\* Display strings of the decoder's errors; the first two report the end of the stream
DecodeErrors == {"read exhausted", "decode exhausted", "invalid data found"}

\* err_str.contains("exhausted")
contains_exhausted(err_str) == err_str \in {"read exhausted", "decode exhausted"}

Init ==
    /\ log \in [metadata : {Resolution}, events : SeqsUpTo(JobEventChoices, MaxJobEvents)]
    /\ config = DefaultConfig
    /\ keyframes = <<>> /\ rawKeyframes = <<>>
    /\ camPc = "off" /\ camT = -1 /\ camIdx = 0 /\ camState = NeutralState
    /\ pc = "start" /\ audit = <<>> /\ outputFile = "absent" /\ encoder = "none"
    /\ gpu = "none" /\ stream = <<>> /\ processed = 0
    /\ current = [zoom |-> R(1), cx |-> Half, cy |-> Half]
    /\ telemetry = <<>> /\ encCalls = <<>> /\ telemetryFile = "absent"
    /\ result = "running" /\ cause = "none" /\ uniforms = <<>>
    /\ FileIdle /\ LoggerIdle /\ HealthIdle /\ HotkeyIdle /\ RecorderIdle

inputs == <<log, config, camVars, extVars>>

\* `return Err(..)` / the `?` operator: the job ends with the error of step c
Abort(c) == pc' = "done" /\ result' = "err" /\ cause' = c

Running == result' = "running" /\ cause' = "none"

\* File::create(&audit_log_path)? and writeln!(audit_log, "[START] ..")?
OpenAuditLog(created, written) ==
    /\ pc = "start"
    /\ IF ~created THEN Abort("audit_create") /\ audit' = audit
       ELSE IF ~written THEN Abort("audit_write") /\ audit' = audit
       ELSE pc' = "open" /\ Running /\ audit' = Append(audit, "[START]")
    /\ UNCHANGED <<inputs, uniforms, keyframes, outputFile, encoder, gpu, stream, processed, current,
                   telemetry, encCalls, telemetryFile>>

\* video_rs::init()? and Decoder::new(source)?
OpenDecoder(init_ok, open_ok) ==
    /\ pc = "open"
    /\ IF ~init_ok THEN Abort("video_init")
       ELSE IF ~open_ok THEN Abort("decoder_open")
       ELSE pc' = "compile" /\ Running
    /\ UNCHANGED <<inputs, uniforms, keyframes, audit, outputFile, encoder, gpu, stream, processed,
                   current, telemetry, encCalls, telemetryFile>>

\* variant: the copy branch is missing
AlwaysTranscode(kfs) == "encoder"

\* the branch on keyframes.is_empty()
AfterKeyframes(kfs) == IF kfs = <<>> THEN "copy" ELSE "encoder"

\* generate_keyframes(log, &actual_config) and writeln!(audit_log, "[KEYFRAMES] ..")?
CompileKeyframes(written) ==
    /\ pc = "compile"
    /\ keyframes' = generate_keyframes(log, config)
    /\ IF ~written THEN Abort("audit_write") /\ audit' = audit
       ELSE pc' = AfterKeyframes(keyframes') /\ Running /\ audit' = Append(audit, "[KEYFRAMES]")
    /\ UNCHANGED <<inputs, uniforms, outputFile, encoder, gpu, stream, processed, current,
                   telemetry, encCalls, telemetryFile>>

\* std::fs::copy(&config.input_path, &config.output_path)?; return Ok(())
\* a failed copy may or may not leave a partial file behind
CopyInput(copied, leftover) ==
    /\ pc = "copy"
    /\ IF copied THEN pc' = "done" /\ result' = "ok" /\ cause' = "none" /\ outputFile' = "copied"
       ELSE Abort("copy") /\ outputFile' = leftover
    /\ UNCHANGED <<inputs, uniforms, keyframes, audit, encoder, gpu, stream, processed, current,
                   telemetry, encCalls, telemetryFile>>

\* Encoder::new(destination, settings)?: opening the encoder creates the output file
CreateEncoder(created) ==
    /\ pc = "encoder"
    /\ IF created THEN pc' = "gpu" /\ Running /\ encoder' = "open" /\ outputFile' = "open"
       ELSE Abort("encoder_create") /\ UNCHANGED <<encoder, outputFile>>
    /\ UNCHANGED <<inputs, uniforms, keyframes, audit, gpu, stream, processed, current,
                   telemetry, encCalls, telemetryFile>>

\* pollster::block_on(RenderEngine::new(..))? and writeln!(audit_log, "[GPU] ..")?
InitGpu(engine_ok, written) ==
    /\ pc = "gpu"
    /\ IF ~engine_ok THEN Abort("gpu_init") /\ UNCHANGED <<gpu, audit>>
       ELSE IF ~written THEN Abort("audit_write") /\ gpu' = "ready" /\ audit' = audit
       ELSE pc' = "loop" /\ Running /\ gpu' = "ready" /\ audit' = Append(audit, "[GPU]")
    /\ UNCHANGED <<inputs, uniforms, keyframes, outputFile, encoder, stream, processed, current,
                   telemetry, encCalls, telemetryFile>>


\* presentation time of the last frame decoded so far (-1 if none)
LastPts ==
    LET fr == {i \in 1..Len(stream) : stream[i].kind = "frame"}
    IN  IF fr = {} THEN -1 ELSE stream[CHOOSE i \in fr : \A j \in fr : j <= i].pts

\* variant: every decode error ends the loop
BreakOnAnyError(err_str) == "finish"

\* where the loop goes after Err(e): `break` on exhaustion, `continue` otherwise
AfterDecodeError(err_str) == IF contains_exhausted(err_str) THEN "finish" ELSE "loop"

\* frame_result is Err(e); when the stream has yielded MaxFrames items it is exhausted
DecodeFails(e) ==
    /\ pc = "loop"
    /\ Len(stream) < MaxFrames \/ contains_exhausted(e)
    /\ stream' = Append(stream, [kind |-> "error", err |-> e, pts |-> -1])
    /\ pc' = AfterDecodeError(e)
    /\ Running
    /\ UNCHANGED <<inputs, uniforms, keyframes, audit, outputFile, encoder, gpu, processed, current,
                   telemetry, encCalls, telemetryFile>>

\* variant: the velocity is taken against the screen centre
TelemetryFromCentre(index, time_secs, state, prev) ==
    [frame_index |-> index, time_secs |-> time_secs, zoom |-> state.zoom,
     cx |-> state.cx, cy |-> state.cy,
     target_cx |-> state.target_cx, target_cy |-> state.target_cy,
     mouse_cx |-> state.mouse_cx, mouse_cy |-> state.mouse_cy,
     velocity_cx |-> RSub(state.cx, Half), velocity_cy |-> RSub(state.cy, Half)]

\* the TelemetryFrame pushed for a decoded frame
TelemetryOf(index, time_secs, state, prev) ==
    [frame_index |-> index, time_secs |-> time_secs, zoom |-> state.zoom,
     cx |-> state.cx, cy |-> state.cy,
     target_cx |-> state.target_cx, target_cy |-> state.target_cy,
     mouse_cx |-> state.mouse_cx, mouse_cy |-> state.mouse_cy,
     velocity_cx |-> RSub(state.cx, prev.cx), velocity_cy |-> RSub(state.cy, prev.cy)]

NearOne(zoom) == RLt(RAbs(RSub(zoom, R(1))), <<1, 1000>>)

\* variant: the test on the previous zoom is inverted
PassthroughAfterZoom(current_zoom, prev_zoom) == NearOne(current_zoom) /\ ~NearOne(prev_zoom)

\* (current_zoom - 1.0).abs() < 0.001 && (prev_zoom - 1.0).abs() < 0.001
IsPassthrough(current_zoom, prev_zoom) == NearOne(current_zoom) /\ NearOne(prev_zoom)

\* variant: the frame is tagged with its position in the stream instead of its time
EncodeCallRenumbered(src, time, frame, ok) ==
    [src |-> src, pts |-> src, frame |-> frame, ok |-> ok]

\* encoder.encode(&frame, time): src is the decoder item the frame comes from
EncodeCall(src, time, frame, ok) == [src |-> src, pts |-> time, frame |-> frame, ok |-> ok]

\* variant: the encode error is propagated with `?`
PropagateEncodeError(ok) == IF ok THEN "continue" ELSE "abort"

\* `if let Err(e) = encoder.encode(..) { println!(..) }`: the error is only printed
OnEncodeResult(ok) == "continue"

\* variant: the result of the map is not looked at
process_frame_unchecked(map_ok) == "Ok"

\* RenderEngine::process_frame: Err when the output buffer cannot be mapped
process_frame(map_ok) == IF map_ok THEN "Ok" ELSE "Err"

\* variant: the motion-blur origin is the current pose
RenderUniformsWithoutHistory(cur, prev) ==
    [zoom |-> cur.zoom, center_x |-> cur.cx, center_y |-> cur.cy,
     prev_center_x |-> cur.cx, prev_center_y |-> cur.cy, prev_zoom |-> cur.zoom]

\* RenderUniforms { zoom, center_x, center_y, prev_center_x, prev_center_y, prev_zoom, .. }
RenderUniforms(cur, prev) ==
    [zoom |-> cur.zoom, center_x |-> cur.cx, center_y |-> cur.cy,
     prev_center_x |-> prev.cx, prev_center_y |-> prev.cy, prev_zoom |-> prev.zoom]

\* the part of an iteration common to both paths: decode, evaluate, record, update
Decoded(t) ==
    /\ pc = "loop"
    /\ Len(stream) < MaxFrames
    /\ t > LastPts
    /\ stream' = Append(stream, [kind |-> "frame", err |-> "", pts |-> t])
    /\ LET state == calculate_camera_at_time(t, keyframes, log, config)
       IN  /\ telemetry' = Append(telemetry, TelemetryOf(processed, t, state, current))
           /\ current' = [zoom |-> state.zoom, cx |-> state.cx, cy |-> state.cy]

\* an iteration that takes the passthrough branch
FramePassthrough(t, enc_ok) ==
    /\ Decoded(t)
    /\ IsPassthrough(current'.zoom, current.zoom)
    /\ encCalls' = Append(encCalls, EncodeCall(Len(stream'), t, "decoded", enc_ok))
    /\ IF OnEncodeResult(enc_ok) = "continue"
       THEN pc' = "loop" /\ Running /\ processed' = processed + 1
       ELSE Abort("encode") /\ processed' = processed
    /\ UNCHANGED <<inputs, uniforms, keyframes, audit, outputFile, encoder, gpu, telemetryFile>>

\* an iteration that takes the GPU branch
FrameGpu(t, contiguous, map_ok, enc_ok) ==
    /\ Decoded(t)
    /\ ~IsPassthrough(current'.zoom, current.zoom)
    /\ IF ~contiguous
       THEN Abort("frame_layout") /\ UNCHANGED <<gpu, encCalls, processed, uniforms>>
       ELSE /\ gpu' = IF map_ok THEN gpu ELSE "lost"
            /\ uniforms' = Append(uniforms, RenderUniforms(current', current))
            /\ IF process_frame(map_ok) = "Err"
               THEN Abort("gpu_frame") /\ UNCHANGED <<encCalls, processed>>
               ELSE /\ encCalls' = Append(encCalls,
                                          EncodeCall(Len(stream'), t, "composited", enc_ok))
                    /\ IF OnEncodeResult(enc_ok) = "continue"
                       THEN pc' = "loop" /\ Running /\ processed' = processed + 1
                       ELSE Abort("encode") /\ processed' = processed
    /\ UNCHANGED <<inputs, keyframes, audit, outputFile, encoder, telemetryFile>>

\* variant: the encoder is finished as soon as the loop is entered
FinishInsideLoop(finished) ==
    /\ pc \in {"loop", "finish"}
    /\ IF finished
       THEN pc' = "telemetry" /\ Running /\ encoder' = "finished" /\ outputFile' = "finalized"
       ELSE Abort("encoder_finish") /\ UNCHANGED <<encoder, outputFile>>
    /\ UNCHANGED <<inputs, uniforms, keyframes, audit, gpu, stream, processed, current,
                   telemetry, encCalls, telemetryFile>>

\* encoder.finish()?
FinishEncoder(finished) ==
    /\ pc = "finish"
    /\ IF finished
       THEN pc' = "telemetry" /\ Running /\ encoder' = "finished" /\ outputFile' = "finalized"
       ELSE Abort("encoder_finish") /\ UNCHANGED <<encoder, outputFile>>
    /\ UNCHANGED <<inputs, uniforms, keyframes, audit, gpu, stream, processed, current,
                   telemetry, encCalls, telemetryFile>>

\* variant: the job returns without writing its last milestone
CompleteSilently(saved, written) ==
    /\ pc = "telemetry"
    /\ telemetryFile' = IF saved THEN "saved" ELSE "absent"
    /\ pc' = "done" /\ result' = "ok" /\ cause' = "none" /\ audit' = audit
    /\ UNCHANGED <<inputs, uniforms, keyframes, outputFile, encoder, gpu, stream, processed, current,
                   telemetry, encCalls>>

\* `let _ = save_telemetry(..)`, writeln!(audit_log, "[COMPLETE] ..")?, Ok(())
Complete(saved, written) ==
    /\ pc = "telemetry"
    /\ telemetryFile' = IF saved THEN "saved" ELSE "absent"
    /\ IF written
       THEN pc' = "done" /\ result' = "ok" /\ cause' = "none" /\ audit' = Append(audit, "[COMPLETE]")
       ELSE Abort("audit_write") /\ audit' = audit
    /\ UNCHANGED <<inputs, uniforms, keyframes, outputFile, encoder, gpu, stream, processed, current,
                   telemetry, encCalls>>

Next ==
    \/ \E created, written \in BOOLEAN : OpenAuditLog(created, written)
    \/ \E init_ok, open_ok \in BOOLEAN : OpenDecoder(init_ok, open_ok)
    \/ \E written \in BOOLEAN : CompileKeyframes(written)
    \/ \E copied \in BOOLEAN, leftover \in {"absent", "partial_copy"} : CopyInput(copied, leftover)
    \/ \E created \in BOOLEAN : CreateEncoder(created)
    \/ \E engine_ok, written \in BOOLEAN : InitGpu(engine_ok, written)
    \/ \E e \in DecodeErrors : DecodeFails(e)
    \/ \E t \in FrameTimes, enc_ok \in BOOLEAN : FramePassthrough(t, enc_ok)
    \/ \E t \in FrameTimes, contiguous, map_ok, enc_ok \in BOOLEAN :
            FrameGpu(t, contiguous, map_ok, enc_ok)
    \/ \E finished \in BOOLEAN : FinishEncoder(finished)
    \/ \E saved, written \in BOOLEAN : Complete(saved, written)

Spec == Init /\ [][Next]_vars


(***************************************************************************)
(* Claims about the transcode pipeline                                     *)
(***************************************************************************)
LastOf(q) == q[Len(q)]

\* the job has compiled the log, found no keyframe and taken the copy branch
ZeroKeyframeBranch ==
    /\ pc \in {"copy", "done"}
    /\ LastOf(<<"">> \o audit) = "[KEYFRAMES]"
    /\ keyframes = <<>>

\* C3: a job whose log yields no keyframe decodes no frame, creates neither an
\* encoder nor a GPU engine, and ends by copying the input to the output path:
\* it returns success with the output identical to the input (or the error of
\* the copy itself).
C3_ZeroKeyframesCopy ==
    ZeroKeyframeBranch =>
        /\ stream = <<>> /\ encCalls = <<>> /\ telemetry = <<>>
        /\ encoder = "none" /\ gpu = "none"
        /\ pc = "done" =>
              \/ result = "ok" /\ outputFile = "copied"
              \/ result = "err" /\ cause = "copy"

\* a finished job on a log that holds cursor samples but no click
C3_Witness ==
    /\ ZeroKeyframeBranch
    /\ pc = "done" /\ result = "ok" /\ outputFile = "copied"
    /\ Len(log.events) = 2

\* C4 as stated: whenever the job returns an error, no output file has been
\* created or partially written.
C4_NoOutputOnError ==
    result = "err" => outputFile = "absent"

IsDecodeErrorStep ==
    /\ Len(stream') = Len(stream) + 1
    /\ LastOf(stream').kind = "error"

\* C5: a decode error never fails the job and never encodes or records anything;
\* one that reports exhaustion ends the loop (the encoder is finished next), any
\* other one only skips the frame and the loop goes on.
C5_DecodeErrorPolicy ==
    [][IsDecodeErrorStep =>
          /\ result' = "running"
          /\ UNCHANGED <<telemetry, encCalls, processed, current, outputFile>>
          /\ LastOf(stream').err \in {"read exhausted", "decode exhausted"} => pc' = "finish"
          /\ LastOf(stream').err = "invalid data found" => pc' = "loop"]_vars

\* a successful job that skipped a bad frame and encoded the frame after it
C5_Witness ==
    /\ pc = "done" /\ result = "ok"
    /\ Len(stream) = 3
    /\ stream[1].err = "invalid data found"
    /\ stream[2].kind = "frame"
    /\ stream[3].err = "read exhausted"
    /\ Len(encCalls) = 1 /\ encCalls[1].src = 2

IsFailedEncodeStep ==
    /\ Len(encCalls') = Len(encCalls) + 1
    /\ ~LastOf(encCalls').ok

\* C6: a failed encode call, on either path, leaves the job running in the frame
\* loop; no job ever returns the error of an encode call, so that a job with
\* failed encode calls still finishes its encoder and returns success.
C6_EncodeErrorTolerated ==
    /\ [][IsFailedEncodeStep => pc' = "loop" /\ result' = "running"]_vars
    /\ [](cause # "encode")
    /\ [](result = "ok" /\ encCalls # <<>> => encoder = "finished")

\* a successful job whose encoder refused a passthrough frame and a GPU frame
C6_Witness ==
    /\ pc = "done" /\ result = "ok" /\ encoder = "finished"
    /\ \E i, j \in 1..Len(encCalls) :
          /\ ~encCalls[i].ok /\ encCalls[i].frame = "decoded"
          /\ ~encCalls[j].ok /\ encCalls[j].frame = "composited"

\* C7: once the compositor has failed to map its output buffer the job is over
\* with that error: the frame is not encoded, nothing is decoded or encoded
\* afterwards, the encoder is not finished and the job does not report success.
C7_MapFailureAborts ==
    /\ [](gpu = "lost" => pc = "done" /\ result = "err" /\ cause = "gpu_frame"
                          /\ encoder # "finished")
    /\ [][gpu' = "lost" /\ gpu # "lost" => encCalls' = encCalls]_vars
    /\ [][gpu = "lost" => UNCHANGED <<stream, encCalls, telemetry>>]_vars

\* the map failed on the second GPU frame of a job
C7_Witness ==
    /\ gpu = "lost"
    /\ Len(encCalls) = 1 /\ encCalls[1].frame = "composited"
    /\ Len(telemetry) = 2

\* C8 as stated: once encoder.finish has returned Ok the job returns Ok,
\* whatever happens to the telemetry file and to the audit log.
C8_SuccessAfterFinish ==
    pc = "done" /\ encoder = "finished" => result = "ok"

\* C9: every encode call carries the presentation time of the decoded frame it
\* was made for, calls are made in decode order, and the call for a frame is
\* made in the iteration that decoded it, before the next frame is decoded.
C9_OriginalTimestampInOrder ==
    /\ [](\A k \in 1..Len(encCalls) :
             /\ encCalls[k].src \in 1..Len(stream)
             /\ stream[encCalls[k].src].kind = "frame"
             /\ encCalls[k].pts = stream[encCalls[k].src].pts
             /\ k > 1 => encCalls[k - 1].src < encCalls[k].src)
    /\ [][encCalls' # encCalls =>
             /\ Len(encCalls') = Len(encCalls) + 1
             /\ SubSeq(encCalls', 1, Len(encCalls)) = encCalls
             /\ Len(stream') = Len(stream) + 1
             /\ LastOf(encCalls').src = Len(stream')]_vars

\* a passthrough frame and a GPU frame were encoded around a skipped bad frame
C9_Witness ==
    /\ Len(encCalls) = 2
    /\ encCalls[1].frame = "decoded" /\ encCalls[1].src = 1
    /\ encCalls[2].frame = "composited" /\ encCalls[2].src = 3
    /\ encCalls[2].pts > encCalls[1].pts

\* the playback time lies in no keyframe window
OutsideAll(t) ==
    \A i \in 1..Len(keyframes) : t < keyframes[i].start_time \/ t > keyframes[i].end_time

\* C10: a frame outside every keyframe window whose preceding processed frame
\* was outside every window as well is handed to the encoder as decoded (the
\* GPU path is not taken for it).
C10_PassthroughOutsideWindows ==
    \A k \in 2..Len(telemetry) :
        OutsideAll(telemetry[k].time_secs) /\ OutsideAll(telemetry[k - 1].time_secs) =>
            /\ k <= Len(encCalls)
            /\ encCalls[k].frame = "decoded"
            /\ encCalls[k].pts = telemetry[k].time_secs

\* after a zoomed frame, the first frame past the window is still composited
\* and the one after it is passed through
C10_Witness ==
    /\ keyframes # <<>>
    /\ Len(encCalls) = 3
    /\ ~OutsideAll(telemetry[1].time_secs)
    /\ OutsideAll(telemetry[2].time_secs) /\ encCalls[2].frame = "composited"
    /\ OutsideAll(telemetry[3].time_secs) /\ encCalls[3].frame = "decoded"


(***************************************************************************)
(* Claims about telemetry, the audit log and the end of the job            *)
(***************************************************************************)
\* the centre of the frame processed before telemetry frame k
PrevCentre(k) ==
    IF k = 1 THEN <<Half, Half>> ELSE <<telemetry[k - 1].cx, telemetry[k - 1].cy>>

\* the pose the interpolator returns at the time of telemetry frame k
PoseAt(k) == calculate_camera_at_time(telemetry[k].time_secs, keyframes, log, config)

\* C11: every frame handed to the encoder, passthrough frames included, has
\* exactly one telemetry frame (only a job that failed in the GPU step has one
\* telemetry frame more than encoder calls); it holds the
\* pose, target and live cursor evaluated at the frame's time, and its velocity
\* is the centre of this frame minus the centre of the previous processed frame
\* ((0.5, 0.5) before the first frame).
C11_OneTelemetryFramePerFrame ==
    /\ Len(encCalls) <= Len(telemetry)
    /\ Len(telemetry) <= Len(encCalls) + 1
    /\ Len(telemetry) > Len(encCalls) => result = "err"
    /\ \A k \in 1..Len(telemetry) :
          LET pose == PoseAt(k)
              prev == PrevCentre(k)
          IN  /\ k <= Len(encCalls) => telemetry[k].time_secs = encCalls[k].pts
              /\ telemetry[k].zoom = pose.zoom
              /\ telemetry[k].cx = pose.cx
              /\ telemetry[k].cy = pose.cy
              /\ telemetry[k].target_cx = pose.target_cx
              /\ telemetry[k].target_cy = pose.target_cy
              /\ telemetry[k].mouse_cx = pose.mouse_cx
              /\ telemetry[k].mouse_cy = pose.mouse_cy
              /\ telemetry[k].velocity_cx = RSub(telemetry[k].cx, prev[1])
              /\ telemetry[k].velocity_cy = RSub(telemetry[k].cy, prev[2])

\* three frames were processed, the first passed through, with the camera
\* moving between the last two
C11_Witness ==
    /\ Len(telemetry) = 3 /\ Len(encCalls) = 3
    /\ encCalls[1].frame = "decoded"
    /\ telemetry[1].velocity_cx = R(0)
    /\ telemetry[2].velocity_cx # R(0)
    /\ telemetry[3].velocity_cx # R(0)
    /\ telemetry[3].velocity_cx # RSub(telemetry[3].cx, Half)

FullAudit == <<"[START]", "[KEYFRAMES]", "[GPU]", "[COMPLETE]">>

\* C12 as stated: every job that returns success has written the four
\* milestones [START], [KEYFRAMES], [GPU], [COMPLETE], in that order.
C12_FourMilestonesOnSuccess ==
    result = "ok" => audit = FullAudit

\* C12 amended: a successful job that transcoded (at least one keyframe) has
\* written [START], [KEYFRAMES], [GPU], [COMPLETE] in that order, [COMPLETE]
\* only after the encoder was finished; a successful job on the copy path (no
\* keyframe) has written [START] and [KEYFRAMES] only.
C12_MilestonesOnSuccess ==
    /\ [](result = "ok" =>
             audit = IF keyframes = <<>> THEN <<"[START]", "[KEYFRAMES]">> ELSE FullAudit)
    /\ [][audit' # audit /\ LastOf(audit') = "[COMPLETE]" => encoder = "finished"]_vars
    /\ [](\A i \in 1..Len(audit) : audit[i] = FullAudit[i])

\* a transcoding job that ended successfully after encoding two frames
C12_Witness ==
    /\ result = "ok" /\ audit = FullAudit
    /\ encoder = "finished" /\ Len(encCalls) = 2

\* the decoder has reported the end of the stream
Exhausted == stream # <<>> /\ LastOf(stream).kind = "error" /\ contains_exhausted(LastOf(stream).err)

\* C13: the encoder is finished only by the step that follows the exhaustion of
\* the decoder, once; nothing is decoded or encoded after it, and every job
\* that entered the frame loop and was not aborted has finished it.
C13_FinishOnceAfterLoop ==
    /\ [][encoder' = "finished" /\ encoder # "finished" =>
             encoder = "open" /\ pc = "finish" /\ Exhausted]_vars
    /\ [][encoder = "finished" =>
             encoder' = "finished" /\ UNCHANGED <<stream, encCalls, telemetry>>]_vars
    /\ [](result = "ok" /\ keyframes # <<>> => encoder = "finished" /\ Exhausted)

\* the encoder was finished after three frames and the job completed
C13_Witness ==
    /\ result = "ok" /\ encoder = "finished"
    /\ Len(encCalls) = 3 /\ Len(stream) = 4


(***************************************************************************)
(* Claims about the keyframes emitted for the clicks                       *)
(***************************************************************************)
Clicks(l) == SelectSeq(l.events, LAMBDA e : e.kind = "Click")

\* end_time of a keyframe that nothing cut short
FullEnd(kf) == kf.start_time + config.hold_duration + 2 * config.zoom_duration

\* a keyframe without its end_time
Span(kf) == [start_time |-> kf.start_time, center_x |-> kf.center_x,
             center_y |-> kf.center_y, zoom |-> kf.zoom]

Occurrences(kfs, sp) == Cardinality({i \in 1..Len(kfs) : Span(kfs[i]) = sp})

\* the sequentializing pass neither removed nor merged nor altered a keyframe,
\* end_time apart
SameSpans ==
    /\ Len(keyframes) = Len(rawKeyframes)
    /\ \A i \in 1..Len(rawKeyframes) :
          Occurrences(keyframes, Span(rawKeyframes[i]))
              = Occurrences(rawKeyframes, Span(rawKeyframes[i]))

\* the keyframe emitted for click e, its centre apart
EmittedFor(kf, e) ==
    /\ kf.start_time * MsPerSec = e.timestamp_ms * TicksPerSec
    /\ kf.end_time = kf.start_time + config.hold_duration + 2 * config.zoom_duration
    /\ kf.zoom = config.zoom_level

\* C14 as stated: one keyframe per Click and none per CursorMove, with
\* start_time = timestamp_ms/1000, end_time = start_time + hold_duration +
\* 2*zoom_duration before sequentializing, centre = (x / width, y / height)
\* and zoom = zoom_level; sequentializing removes and merges nothing.
C14_KeyframePerClickUnclamped ==
    camPc # "input" =>
        /\ Len(rawKeyframes) = Len(Clicks(log))
        /\ \A i \in 1..Len(rawKeyframes) :
              /\ EmittedFor(rawKeyframes[i], Clicks(log)[i])
              /\ rawKeyframes[i].center_x = Norm(Clicks(log)[i].x, log.metadata.width)
              /\ rawKeyframes[i].center_y = Norm(Clicks(log)[i].y, log.metadata.height)
        /\ SameSpans

\* x / width limited to [0, 1]
ClampedRatio(x, width) == IF x < 0 THEN R(0) ELSE IF x > width THEN R(1) ELSE Norm(x, width)

\* C14 amended: as stated, except that the centre is (x / width, y / height)
\* limited to [0, 1] on each axis.  One click at (960, 540) at 1.0 s on
\* 1920x1080 with the default timing gives the single keyframe start 1.0,
\* end 3.6, centre (0.5, 0.5), zoom 1.5.
C14_KeyframePerClick ==
    camPc # "input" =>
        /\ Len(rawKeyframes) = Len(Clicks(log))
        /\ \A i \in 1..Len(rawKeyframes) :
              /\ EmittedFor(rawKeyframes[i], Clicks(log)[i])
              /\ rawKeyframes[i].center_x = ClampedRatio(Clicks(log)[i].x, log.metadata.width)
              /\ rawKeyframes[i].center_y = ClampedRatio(Clicks(log)[i].y, log.metadata.height)
        /\ SameSpans
        /\ (log.events = <<Click(960, 540, 1000)>> /\ config = DefaultConfig) =>
              keyframes = <<[start_time |-> TicksPerSec, end_time |-> (36 * TicksPerSec) \div 10,
                             center_x |-> Half, center_y |-> Half, zoom |-> <<3, 2>>]>>

\* a compiled log with a cursor sample and two overlapping clicks, one of them
\* outside the recorded resolution
C14_Witness ==
    /\ camPc = "compiled"
    /\ Len(log.events) = 3 /\ Len(keyframes) = 2
    /\ keyframes[1].end_time = keyframes[2].start_time
    /\ \E i \in 1..2 : keyframes[i].center_x = R(1) /\ keyframes[i].center_y = R(0)

\* the single-click scenario of C14
C14_ScenarioReached ==
    /\ camPc = "compiled"
    /\ log.events = <<Click(960, 540, 1000)>> /\ config = DefaultConfig

\* C15: the sequentializing pass orders the keyframes by start_time and changes
\* nothing but the end_time of a keyframe that overlaps its successor, which
\* becomes the successor's start_time; every other end_time, the last one
\* included, stays start_time + hold_duration + 2*zoom_duration.  Clicks at
\* 1.0 s and 1.5 s: the first keyframe ends at 1.5 s.
C15_TruncationOnly ==
    camPc # "input" =>
        /\ SameSpans
        /\ \A i \in 1..Len(keyframes) :
              keyframes[i].end_time =
                  IF i < Len(keyframes) /\ FullEnd(keyframes[i]) > keyframes[i + 1].start_time
                  THEN keyframes[i + 1].start_time
                  ELSE FullEnd(keyframes[i])
        /\ ClickTimes(log) = <<1000, 1500>> =>
              keyframes[1].end_time * 10 = 15 * TicksPerSec

\* three clicks: the first keyframe was cut short by the second, the second
\* ends before the third starts and was left alone
C15_Witness ==
    /\ camPc = "compiled"
    /\ Len(keyframes) = 3
    /\ keyframes[1].end_time = keyframes[2].start_time
    /\ keyframes[1].end_time < FullEnd(keyframes[1])
    /\ keyframes[2].end_time = FullEnd(keyframes[2])
    /\ keyframes[2].end_time < keyframes[3].start_time


(***************************************************************************)
(* Claims about the zoom envelope of a keyframe                            *)
(***************************************************************************)
\* an earlier-starting keyframe was cut short at the start of keyframe k
CutShortAtStartOf(k) ==
    \E j \in 1..(k - 1) :
        /\ keyframes[j].start_time < keyframes[k].start_time
        /\ keyframes[j].end_time = keyframes[k].start_time

\* C16 as stated: for every keyframe, the zoom evaluated at start_time is 1.0
\* and the zoom evaluated at start_time + zoom_duration is the keyframe's zoom.
C16_ZoomAtRampEnds ==
    camPc = "evaluated" =>
        \A k \in 1..Len(keyframes) :
            /\ camT = keyframes[k].start_time => camState.zoom = R(1)
            /\ camT = keyframes[k].start_time + config.zoom_duration =>
                  camState.zoom = keyframes[k].zoom

\* C16 amended: the zoom evaluated at a keyframe's start_time is 1.0 unless an
\* earlier-starting keyframe was cut short at that instant, in which case the
\* earlier keyframe still decides the pose and the zoom is above 1.0; the zoom
\* evaluated at start_time + zoom_duration is the keyframe's zoom provided the
\* keyframe was not cut short before that instant.
C16_ZoomAtRampEndsUnlessCut ==
    camPc = "evaluated" =>
        \A k \in 1..Len(keyframes) :
            /\ camT = keyframes[k].start_time =>
                  IF CutShortAtStartOf(k)
                  THEN camIdx < k /\ RLt(R(1), camState.zoom)
                  ELSE camState.zoom = R(1)
            /\ (/\ camT = keyframes[k].start_time + config.zoom_duration
                /\ camT <= keyframes[k].end_time) =>
                  camState.zoom = keyframes[k].zoom

\* the end of the zoom-in of an uncut keyframe that follows a cut one
C16_Witness ==
    /\ camPc = "evaluated"
    /\ Len(keyframes) = 2
    /\ CutShortAtStartOf(2)
    /\ camIdx = 2
    /\ camT = keyframes[2].start_time + config.zoom_duration
    /\ camState.zoom = config.zoom_level

\* C20 as stated: for the keyframe that decides the pose, cut short or not, the
\* zoom is the keyframe's zoom throughout [zoom_in_end, hold_end] and is back at
\* 1.0 at end_time.
C20_ZoomBackAtEnd ==
    (camPc = "evaluated" /\ camIdx > 0) =>
        LET kf == keyframes[camIdx]
        IN  /\ (zoom_in_end(kf, config) <= camT /\ camT <= hold_end(kf, config)) =>
                  camState.zoom = kf.zoom
            /\ camT = kf.end_time => camState.zoom = R(1)

\* C20 amended: for the keyframe that decides the pose the zoom is the
\* keyframe's zoom throughout [zoom_in_end, hold_end] and lies between 1.0 and
\* the keyframe's zoom afterwards; at end_time it is 1.0 when the keyframe was
\* not cut short, and still above 1.0 when a later click cut it short after
\* its start (the keyframe's zoom itself when the cut fell within the hold).
C20_ZoomBackAtEndUnlessCut ==
    (camPc = "evaluated" /\ camIdx > 0) =>
        LET kf == keyframes[camIdx]
            zie == kf.start_time + config.zoom_duration
            he  == IF kf.end_time < zie + config.hold_duration
                   THEN kf.end_time ELSE zie + config.hold_duration
        IN  /\ (zie <= camT /\ camT <= he) => camState.zoom = kf.zoom
            /\ he <= camT => RLe(R(1), camState.zoom) /\ RLe(camState.zoom, kf.zoom)
            /\ camT = kf.end_time =>
                  IF kf.end_time = FullEnd(kf) THEN camState.zoom = R(1)
                  ELSE kf.end_time > kf.start_time => RLt(R(1), camState.zoom)
            /\ (camT = kf.end_time /\ zie <= camT /\ camT <= zie + config.hold_duration
                   /\ kf.end_time < FullEnd(kf)) =>
                  camState.zoom = kf.zoom

\* the end of a keyframe that a later click cut short during its hold
C20_Witness ==
    /\ camPc = "evaluated" /\ camIdx = 1
    /\ Len(keyframes) = 2
    /\ config = DefaultConfig
    /\ keyframes[1].end_time < FullEnd(keyframes[1])
    /\ camT = keyframes[1].end_time
    /\ camT > zoom_in_end(keyframes[1], config)
    /\ camState.zoom = keyframes[1].zoom


(***************************************************************************)
(* Event log files                                                         *)
(***************************************************************************)
\* JSON documents: objects and arrays; numbers are integers
JObject(fields) == [t |-> "object", fields |-> fields]
JArray(items) == [t |-> "array", items |-> items]

\* the outcome of a load
Ok(v) == [ok |-> TRUE, value |-> v]
Err == [ok |-> FALSE]

\* #[derive(Serialize)] of RecordedEvent: {"Click": {"x":, "y":, "timestamp_ms":}}
SerializeEvent(e) ==
    LET body == JObject([x |-> e.x, y |-> e.y, timestamp_ms |-> e.timestamp_ms])
    IN  IF e.kind = "Click" THEN JObject([Click |-> body])
        ELSE JObject([CursorMove |-> body])

\* #[derive(Deserialize)] of RecordedEvent
DeserializeEvent(j) ==
    IF "Click" \in DOMAIN j.fields
    THEN LET b == j.fields.Click.fields IN Click(b.x, b.y, b.timestamp_ms)
    ELSE LET b == j.fields.CursorMove.fields IN CursorMove(b.x, b.y, b.timestamp_ms)

\* variant: only the clicks are written
save_events_clicks_only(events) ==
    LET clicks == SelectSeq(events, LAMBDA e : e.kind = "Click")
    IN  JArray([i \in 1..Len(clicks) |-> SerializeEvent(clicks[i])])

\* the document save_events writes: a bare array of events
save_events(events) == JArray([i \in 1..Len(events) |-> SerializeEvent(events[i])])

\* load_events: the document must be an array of events
load_events(json) ==
    IF json.t = "array"
    THEN Ok([i \in 1..Len(json.items) |-> DeserializeEvent(json.items[i])])
    ELSE Err

\* the metadata given to a file without a metadata wrapper
LegacyMetadata == [width |-> 1920, height |-> 1080]

\* the document save_event_log writes: {"metadata": {...}, "events": [...]}
save_event_log(l) ==
    JObject([metadata |-> JObject([width |-> l.metadata.width, height |-> l.metadata.height]),
             events   |-> save_events(l.events)])

\* load_event_log: the wrapped document, or a bare array of events
load_event_log(json) ==
    IF json.t = "object"
    THEN LET m  == json.fields.metadata.fields
             ev == load_events(json.fields.events)
         IN  IF ev.ok
             THEN Ok([metadata |-> [width |-> m.width, height |-> m.height],
                      events   |-> ev.value])
             ELSE Err
    ELSE LET ev == load_events(json)
         IN  IF ev.ok THEN Ok([metadata |-> LegacyMetadata, events |-> ev.value]) ELSE Err

\* what a caller sees of a loaded EventLog / of a loaded Vec<RecordedEvent>
SeenLog(res) ==
    IF res.ok THEN [ok |-> TRUE, metadata |-> <<res.value.metadata>>, events |-> res.value.events]
    ELSE [ok |-> FALSE, metadata |-> <<>>, events |-> <<>>]

SeenEvents(res) ==
    IF res.ok THEN [ok |-> TRUE, metadata |-> <<>>, events |-> res.value]
    ELSE [ok |-> FALSE, metadata |-> <<>>, events |-> <<>>]

\* the resolutions a recording can have
MetadataChoices == {LegacyMetadata, [width |-> 2560, height |-> 1440]}

InitFile ==
    /\ log \in [metadata : MetadataChoices, events : SeqsUpTo(JobEventChoices, MaxJobEvents)]
    /\ config = DefaultConfig
    /\ CamIdle /\ JobIdle /\ FileIdle /\ LoggerIdle /\ HealthIdle /\ HotkeyIdle /\ RecorderIdle

\* main.rs: the log of the recording is saved with its metadata
SaveEventLog ==
    /\ eventsFile' = <<save_event_log(log)>>
    /\ UNCHANGED <<loaded, base, hotkeyVars, recorderVars, loggerVars, healthVars>>

\* the events are saved without metadata
SaveEvents ==
    /\ eventsFile' = <<save_events(log.events)>>
    /\ UNCHANGED <<loaded, base, hotkeyVars, recorderVars, loggerVars, healthVars>>

LoadEventLog ==
    /\ eventsFile # <<>>
    /\ loaded' = <<SeenLog(load_event_log(eventsFile[1]))>>
    /\ UNCHANGED <<eventsFile, base, hotkeyVars, recorderVars, loggerVars, healthVars>>

\* dashboard.rs: the events file is read as a bare array
LoadEvents ==
    /\ eventsFile # <<>>
    /\ loaded' = <<SeenEvents(load_events(eventsFile[1]))>>
    /\ UNCHANGED <<eventsFile, base, hotkeyVars, recorderVars, loggerVars, healthVars>>

NextFile == SaveEventLog \/ SaveEvents \/ LoadEventLog \/ LoadEvents

SpecFile == InitFile /\ [][NextFile]_vars

\* C17: loading with load_event_log a file written by save_event_log yields
\* the saved events and the saved metadata; loading a file that holds a bare
\* array of events (as save_events writes it) succeeds and yields those events
\* with metadata 1920x1080; load_events gives back what save_events wrote.
C17_RoundTrip ==
    /\ [][LoadEventLog =>
            /\ loaded'[1].ok
            /\ loaded'[1].events = log.events
            /\ loaded'[1].metadata =
                  IF eventsFile[1].t = "object" THEN <<log.metadata>>
                  ELSE <<[width |-> 1920, height |-> 1080]>>]_vars
    /\ [][(LoadEvents /\ eventsFile[1].t = "array") =>
            loaded'[1].ok /\ loaded'[1].events = log.events]_vars
    /\ [](eventsFile # <<>> =>
            (eventsFile[1].t = "array" <=> eventsFile[1] = save_events(log.events)))

\* a log of two events recorded at 2560x1440 came back from its wrapped file
C17_Witness ==
    /\ Len(log.events) = 2 /\ log.metadata.width = 2560
    /\ log.events[1].kind # log.events[2].kind
    /\ eventsFile # <<>> /\ eventsFile[1].t = "object"
    /\ loaded = <<[ok |-> TRUE, metadata |-> <<log.metadata>>, events |-> log.events]>>

\* the same log came back from a bare array with the default metadata
C17_LegacyLoaded ==
    /\ Len(log.events) = 2 /\ log.metadata.width = 2560
    /\ eventsFile # <<>> /\ eventsFile[1].t = "array"
    /\ loaded = <<[ok |-> TRUE, metadata |-> <<LegacyMetadata>>, events |-> log.events]>>


(***************************************************************************)
(* The live event logger                                                   *)
(***************************************************************************)
\* the clock advances in steps of 50 ms
ClockStepMs == 50

\* `Duration::from_millis(100)`: the cursor sampling interval
SampleIntervalMs == 100

\* what device_state.get_mouse() can return: coords and button_pressed, a
\* vector with one flag per button slot: no slots, no button down, one down
MouseChoices ==
    [coords : {<<480, 1080>>, <<960, 270>>},
     button_pressed : {<<>>, <<FALSE, FALSE>>, <<FALSE, TRUE>>}]

\* variant: the flags of the vector are looked at
some_flag_set(button_pressed) == \E i \in 1..Len(button_pressed) : button_pressed[i]

\* `!mouse.button_pressed.is_empty()`
is_clicking(button_pressed) == button_pressed # <<>>

\* variant: stop hands out nothing
taken_nothing(lg) == [events |-> <<>>, left |-> <<>>]

\* `log.take()` and the match on it: the events handed out, and what is left
take_log(lg) == [events |-> IF lg = <<>> THEN <<>> ELSE lg[1].events, left |-> <<>>]

\* variant: the time since the last cursor sample
elapsed_since_sample(state, t) == t - state.last_sample_time

\* `state.start_time.elapsed().as_millis() as u64` at instant t
elapsed_ms(state, t) == t - state.start_time

InitLogger ==
    /\ log = [metadata |-> Resolution, events |-> <<>>]
    /\ config = DefaultConfig
    /\ CamIdle /\ JobIdle /\ FileIdle /\ HealthIdle /\ HotkeyIdle /\ RecorderIdle
    /\ now = 0 /\ logger = <<>> /\ returned = <<>>

\* time passes between two calls
Tick ==
    /\ now < MaxClockSteps * ClockStepMs
    /\ now' = now + ClockStepMs
    /\ UNCHANGED <<logger, returned, base, hotkeyVars, recorderVars, fileVars, healthVars>>

start_event_logging ==
    /\ logger' = <<[events              |-> <<>>,
                    start_time          |-> now,
                    last_button_pressed |-> <<>>,
                    last_sample_time    |-> now]>>
    /\ UNCHANGED <<now, returned, base, hotkeyVars, recorderVars, fileVars, healthVars>>

update_event_logging(mouse) ==
    /\ IF logger = <<>> THEN UNCHANGED logger
       ELSE LET state        == logger[1]
                timestamp_ms == elapsed_ms(state, now)
                x            == mouse.coords[1]
                y            == mouse.coords[2]
                was_clicking == is_clicking(state.last_button_pressed)
                clicked      == is_clicking(mouse.button_pressed) /\ ~was_clicking
                sampled      == now - state.last_sample_time >= SampleIntervalMs
                e1           == IF clicked
                                THEN Append(state.events, Click(x, y, timestamp_ms))
                                ELSE state.events
                e2           == IF sampled THEN Append(e1, CursorMove(x, y, timestamp_ms))
                                ELSE e1
            IN  /\ Len(state.events) < MaxLogged
                /\ logger' = <<[events              |-> e2,
                                start_time          |-> state.start_time,
                                last_button_pressed |-> mouse.button_pressed,
                                last_sample_time    |-> IF sampled THEN now
                                                     ELSE state.last_sample_time]>>
    /\ UNCHANGED <<now, returned, base, hotkeyVars, recorderVars, fileVars, healthVars>>

stop_event_logging ==
    /\ returned' = take_log(logger).events
    /\ logger' = take_log(logger).left
    /\ UNCHANGED <<now, base, hotkeyVars, recorderVars, fileVars, healthVars>>

NextLogger ==
    \/ Tick
    \/ start_event_logging
    \/ \E mouse \in MouseChoices : update_event_logging(mouse)
    \/ stop_event_logging

SpecLogger == InitLogger /\ [][NextLogger]_vars

TimeOrdered(events) ==
    \A i, j \in 1..Len(events) : i < j => events[i].timestamp_ms <= events[j].timestamp_ms

\* `longer` is `events` followed by events stamped no earlier than any of `events`
AppendedInOrder(events, longer) ==
    /\ Len(longer) >= Len(events)
    /\ SubSeq(longer, 1, Len(events)) = events
    /\ \A i \in 1..Len(events), j \in (Len(events) + 1)..Len(longer) :
          events[i].timestamp_ms <= longer[j].timestamp_ms

\* C19: the events of the live log and of every log returned by
\* stop_event_logging are in non-decreasing timestamp_ms order; between a
\* start and the next start or stop the log only grows, by events stamped no
\* earlier than any event already in it, and stop returns it as it stands.
C19_TimeOrderedLog ==
    /\ [](logger # <<>> => TimeOrdered(logger[1].events))
    /\ [](TimeOrdered(returned))
    /\ [][(logger # <<>> /\ logger' # <<>>) =>
            \/ AppendedInOrder(logger[1].events, logger'[1].events)
            \/ logger'[1].events = <<>> /\ logger'[1].start_time = now]_vars
    /\ [][(logger # <<>> /\ logger' = <<>>) => returned' = logger[1].events]_vars

\* a stopped recording with a click, and a later click that fell together
\* with a cursor sample
C19_Witness ==
    /\ logger = <<>>
    /\ Len(returned) = 3
    /\ returned[1].kind = "Click" /\ returned[2].kind = "Click"
    /\ returned[3].kind = "CursorMove"
    /\ returned[1].timestamp_ms < returned[2].timestamp_ms
    /\ returned[2].timestamp_ms = returned[3].timestamp_ms

(***************************************************************************)
(* Motion health of a telemetry session                                    *)
(***************************************************************************)
\* centres are in thousandths of the frame: 0.015 is 15
velocity_threshold == 15

\* `-0.0001`, in millionths (a product of two velocities)
jitter_threshold == -100

\* the jitter count above which the verdict is a warning
jitter_limit == 10

\* variant: the length of the velocity vector is compared with the threshold
is_spike_by_length(vel_x, vel_y) ==
    vel_x * vel_x + vel_y * vel_y > velocity_threshold * velocity_threshold

\* `vel_x > velocity_threshold || vel_y > velocity_threshold`
is_spike(vel_x, vel_y) == vel_x > velocity_threshold \/ vel_y > velocity_threshold

\* variant: the triple ending at frame 2 is examined too, without dead band
is_flip_from_two(i, v1_x, v2_x) == i >= 2 /\ v1_x * v2_x < 0

\* `if i > 2 { ... if v1_x * v2_x < -0.0001`
is_flip(i, v1_x, v2_x) == i > 2 /\ v1_x * v2_x < jitter_threshold

\* the `for i in 1..session.frames.len()` loop, from iteration i on (i is the
\* 0-based index of the code; frames[i + 1] is its session.frames[i])
RECURSIVE motion_loop(_, _, _, _)
motion_loop(frames, i, spikes, jitter) ==
    IF i >= Len(frames) THEN [velocity_spikes |-> spikes, jitter_events |-> jitter]
    ELSE LET f     == frames[i + 1]
             prev  == frames[i]
             vel_x == AbsInt(f.cx - prev.cx)
             vel_y == AbsInt(f.cy - prev.cy)
             spike == is_spike(vel_x, vel_y)
             flip  == IF i >= 2
                      THEN is_flip(i, f.cx - prev.cx, prev.cx - frames[i - 1].cx)
                      ELSE FALSE
         IN  motion_loop(frames, i + 1,
                         IF spike THEN spikes + 1 ELSE spikes,
                         IF flip THEN jitter + 1 ELSE jitter)

\* variant: ten jitter events already warn
motion_verdict_from_ten(spikes, jitter) ==
    IF spikes > 0 \/ jitter >= jitter_limit THEN "warn" ELSE "good"

\* tracing::warn! or tracing::info!
motion_verdict(spikes, jitter) ==
    IF spikes > 0 \/ jitter > jitter_limit THEN "warn" ELSE "good"

\* camera centres of a frame: at rest, small and large moves on either axis,
\* and a move along the diagonal
FrameChoices ==
    {[cx |-> 500, cy |-> 500], [cx |-> 506, cy |-> 500], [cx |-> 515, cy |-> 500],
     [cx |-> 550, cy |-> 500], [cx |-> 500, cy |-> 550], [cx |-> 512, cy |-> 512]}

\* n frames oscillating by 0.012 around the frame `from`
Zigzag(from, n) ==
    [k \in 1..n |-> [cx |-> IF k % 2 = 1 THEN from.cx + 12 ELSE from.cx, cy |-> from.cy]]

\* sessions: some frames, then an oscillating tail
SessionChoices ==
    {p \o Zigzag(IF p = <<>> THEN [cx |-> 500, cy |-> 500] ELSE p[Len(p)], n) :
        p \in SeqsUpTo(FrameChoices, MaxPrefix), n \in 0..MaxZig}

InitHealth ==
    /\ log = [metadata |-> Resolution, events |-> <<>>]
    /\ config = DefaultConfig
    /\ CamIdle /\ JobIdle /\ FileIdle /\ LoggerIdle
    /\ session \in SessionChoices
    /\ healthPc = "loaded"
    /\ velocity_spikes = 0 /\ jitter_events = 0 /\ verdict = "none"
    /\ HotkeyIdle /\ RecorderIdle

analyze_motion_health ==
    /\ healthPc = "loaded"
    /\ LET counts == motion_loop(session, 1, 0, 0)
       IN  /\ velocity_spikes' = counts.velocity_spikes
           /\ jitter_events' = counts.jitter_events
           /\ verdict' = motion_verdict(counts.velocity_spikes, counts.jitter_events)
    /\ healthPc' = "analysed"
    /\ UNCHANGED <<session, base, hotkeyVars, recorderVars, fileVars, loggerVars>>

NextHealth == analyze_motion_health

SpecHealth == InitHealth /\ [][NextHealth]_vars

\* the centre deltas between consecutive frames, as (|dx|, |dy|)
DeltaX(i) == session[i + 1].cx - session[i].cx
DeltaY(i) == session[i + 1].cy - session[i].cy
Magnitude(d) == IF d < 0 THEN -d ELSE d

AllDeltasBelowThreshold ==
    \A i \in 1..(Len(session) - 1) : Magnitude(DeltaX(i)) < 15 /\ Magnitude(DeltaY(i)) < 15

NoSignReversal ==
    \A i \in 1..(Len(session) - 2) : DeltaX(i) * DeltaX(i + 1) >= 0

HasDeltaOfFiveHundredths ==
    \E i \in 1..(Len(session) - 1) : Magnitude(DeltaX(i)) = 50 \/ Magnitude(DeltaY(i)) = 50

\* C18: the verdict is a warning exactly when the spike count is above 0 or the
\* jitter count is above 10, and "good" otherwise; the spike count is the
\* number of consecutive-frame deltas above 0.015 on either axis; a session
\* with all deltas below 0.015 and no sign reversal is good, and a session
\* with a delta of 0.05 gets a warning with at least one spike.
C18_MotionVerdict ==
    healthPc = "analysed" =>
        /\ verdict \in {"warn", "good"}
        /\ verdict = "warn" <=> (velocity_spikes > 0 \/ jitter_events > 10)
        /\ velocity_spikes =
              Cardinality({i \in 1..(Len(session) - 1) :
                              Magnitude(DeltaX(i)) > 15 \/ Magnitude(DeltaY(i)) > 15})
        /\ (AllDeltasBelowThreshold /\ NoSignReversal) => verdict = "good"
        /\ HasDeltaOfFiveHundredths => verdict = "warn" /\ velocity_spikes >= 1

\* an oscillating session with exactly ten jitter events and no spike is good
C18_Witness ==
    /\ healthPc = "analysed"
    /\ velocity_spikes = 0 /\ jitter_events = 10
    /\ verdict = "good"

\* the square of the length of the centre delta i, in millionths
SquaredLength(i) == DeltaX(i) * DeltaX(i) + DeltaY(i) * DeltaY(i)

\* C25 as stated: the spike count is the number of frames 1..n-1 whose centre
\* velocity has a magnitude over both axes (the length of the delta vector)
\* above 0.015.
C25_SpikesByMagnitude ==
    healthPc = "analysed" =>
        velocity_spikes =
            Cardinality({i \in 1..(Len(session) - 1) : SquaredLength(i) > 15 * 15})

\* C25: the spike count is the number of frames 1..n-1 whose centre moved by
\* more than 0.015 along the x axis or by more than 0.015 along the y axis; a
\* move whose length is above 0.015 while both components are at most 0.015
\* is not counted.
C25_SpikesPerAxis ==
    healthPc = "analysed" =>
        /\ velocity_spikes =
              Cardinality({i \in 1..(Len(session) - 1) :
                              Magnitude(DeltaX(i)) > 15 \/ Magnitude(DeltaY(i)) > 15})
        /\ velocity_spikes <=
              Cardinality({i \in 1..(Len(session) - 1) : SquaredLength(i) > 15 * 15})
        /\ (\A i \in 1..(Len(session) - 1) :
                Magnitude(DeltaX(i)) <= 15 /\ Magnitude(DeltaY(i)) <= 15)
           => velocity_spikes = 0

\* a session that moves by (0.012, 0.012) in one frame, a length of about
\* 0.017, analysed without a spike
C25_Witness ==
    /\ healthPc = "analysed"
    /\ Len(session) >= 2
    /\ DeltaX(1) = 12 /\ DeltaY(1) = 12
    /\ velocity_spikes = 0

\* C26 as stated: the jitter count is the number of triples of consecutive
\* frames (i-2, i-1, i), i from 2 to n-1, whose two x-velocities have
\* opposite signs.
C26_JitterCountsSignChanges ==
    healthPc = "analysed" =>
        jitter_events =
            Cardinality({k \in 1..(Len(session) - 2) : DeltaX(k) * DeltaX(k + 1) < 0})

\* what the loop counts: the triples with i from 3 on whose x-velocity
\* product is below -0.0001
JitterCountedFromThree ==
    healthPc = "analysed" =>
        jitter_events =
            Cardinality({k \in 2..(Len(session) - 2) : DeltaX(k) * DeltaX(k + 1) < -100})

\* three frames 0.500, 0.512, 0.500: one reversal, none counted
JitterOfFirstTripleMissed ==
    /\ healthPc = "analysed"
    /\ Len(session) = 3
    /\ DeltaX(1) = 12 /\ DeltaX(2) = -12
    /\ jitter_events = 0


(***************************************************************************)
(* Claims about the choice between passthrough and GPU compositing         *)
(***************************************************************************)
\* |z - 1.0| < 0.001 for a rational z = n/d
WithinThousandthOfOne(z) ==
    LET diff == IF z[1] >= z[2] THEN z[1] - z[2] ELSE z[2] - z[1]
    IN  diff * 1000 < z[2]

\* zoom and centre of the frame processed before telemetry frame k
PoseBefore(k) ==
    IF k = 1 THEN [zoom |-> <<1, 1>>, cx |-> <<1, 2>>, cy |-> <<1, 2>>]
    ELSE [zoom |-> telemetry[k - 1].zoom, cx |-> telemetry[k - 1].cx, cy |-> telemetry[k - 1].cy]

\* telemetry frame k needs no zoom and follows a frame that needed none
Unzoomed(k) ==
    WithinThousandthOfOne(telemetry[k].zoom) /\ WithinThousandthOfOne(PoseBefore(k).zoom)

\* the telemetry frames that are not Unzoomed, in order
RECURSIVE ZoomedFrames(_)
ZoomedFrames(n) ==
    IF n = 0 THEN <<>>
    ELSE IF Unzoomed(n) THEN ZoomedFrames(n - 1) ELSE Append(ZoomedFrames(n - 1), n)

\* C21: a decoded frame is handed to the encoder as decoded, with no GPU call,
\* if and only if its zoom and the zoom of the preceding processed frame (1.0
\* before the first) are within 0.001 of 1.0; every other frame is given to
\* the compositor with its own pose and the preceding frame's pose as uniforms
\* (unless the job fails on the frame's layout first), and what the encoder
\* gets for it is the composited frame.
C21_PassthroughIffUnzoomed ==
    LET zoomed == ZoomedFrames(Len(telemetry))
    IN  /\ \A k \in 1..Len(encCalls) :
              (encCalls[k].frame = "decoded") <=> Unzoomed(k)
        /\ Len(uniforms) <= Len(zoomed)
        /\ Len(zoomed) <= Len(uniforms) + 1
        /\ Len(zoomed) > Len(uniforms) => cause = "frame_layout"
        /\ \A j \in 1..Len(uniforms) :
              LET k == zoomed[j]
              IN  /\ uniforms[j].zoom = telemetry[k].zoom
                  /\ uniforms[j].center_x = telemetry[k].cx
                  /\ uniforms[j].center_y = telemetry[k].cy
                  /\ uniforms[j].prev_zoom = PoseBefore(k).zoom
                  /\ uniforms[j].prev_center_x = PoseBefore(k).cx
                  /\ uniforms[j].prev_center_y = PoseBefore(k).cy

\* a passthrough frame, then two composited frames with different poses, the
\* second one blurred from the pose of the first
C21_Witness ==
    /\ Len(encCalls) = 3 /\ Len(uniforms) = 2
    /\ encCalls[1].frame = "decoded"
    /\ encCalls[2].frame = "composited" /\ encCalls[3].frame = "composited"
    /\ uniforms[1].prev_zoom = <<1, 1>>
    /\ uniforms[2].prev_zoom = uniforms[1].zoom
    /\ uniforms[2].prev_center_x = uniforms[1].center_x
    /\ uniforms[2].center_x # uniforms[1].center_x


(***************************************************************************)
(* Claims about the pose between and inside keyframe windows               *)
(***************************************************************************)
\* C22: at a playback time that lies in no keyframe window the interpolator
\* returns zoom 1.0 and centre (0.5, 0.5), whatever the log holds (cursor
\* samples included) and whether the preceding keyframe ran its full length
\* or was cut short.
C22_NeutralOutsideWindows ==
    (camPc = "evaluated" /\ OutsideAll(camT)) =>
        /\ camIdx = 0
        /\ camState.zoom = <<1, 1>>
        /\ camState.cx = <<1, 2>> /\ camState.cy = <<1, 2>>

\* just after the end of an off-centre keyframe, with a cursor sample in the log
C22_Witness ==
    /\ camPc = "evaluated"
    /\ Len(keyframes) = 1 /\ keyframes[1].center_x # Half
    /\ camT = keyframes[1].end_time + 1
    /\ \E i \in 1..Len(log.events) : log.events[i].kind = "CursorMove"
    /\ camState.cx = Half /\ camState.zoom = R(1)


\* the log without its CursorMove events
ClicksOnly(l) == [l EXCEPT !.events = Clicks(l)]

\* the pose the interpolator returns at camT for the log without its cursor samples
PoseForClicksOnly ==
    calculate_camera_at_time(camT, generate_keyframes(ClicksOnly(log), config),
                             ClicksOnly(log), config)

\* camT is strictly inside the hold window of the keyframe that decides the pose
StrictlyInHold ==
    /\ camIdx > 0
    /\ LET kf  == keyframes[camIdx]
           zie == kf.start_time + config.zoom_duration
           he  == IF kf.end_time < zie + config.hold_duration
                  THEN kf.end_time ELSE zie + config.hold_duration
       IN  zie < camT /\ camT < he

\* C23: the pose evaluated for a log and the pose evaluated for the same log
\* without its CursorMove events (so, for any two logs with the same metadata
\* and the same clicks) have the same zoom and target at every time, and the
\* same centre at every time that is not strictly inside the hold window of
\* the matching keyframe.
C23_CursorOnlyMovesHold ==
    camPc = "evaluated" =>
        LET bare == PoseForClicksOnly
        IN  /\ camState.zoom = bare.zoom
            /\ camState.target_cx = bare.target_cx
            /\ camState.target_cy = bare.target_cy
            /\ ~StrictlyInHold =>
                  /\ camState.cx = bare.cx
                  /\ camState.cy = bare.cy

\* at the last instant of a hold the cursor sample of the log has moved the
\* live cursor but not the centre
C23_Witness ==
    /\ camPc = "evaluated" /\ camIdx = 1
    /\ camT = hold_end(keyframes[1], config)
    /\ camT > zoom_in_end(keyframes[1], config)
    /\ camState.mouse_cx # PoseForClicksOnly.mouse_cx
    /\ camState.cx = keyframes[1].center_x

\* inside the hold the cursor samples do move the centre
C23_DriftInsideHold ==
    /\ camPc = "evaluated" /\ StrictlyInHold
    /\ camState.cx # PoseForClicksOnly.cx

\* the centre the pan starts from for the keyframe that decides the pose
StartCentre ==
    IF camIdx > 1 THEN <<keyframes[camIdx - 1].center_x, keyframes[camIdx - 1].center_y>>
    ELSE <<Half, Half>>

\* C24: for the keyframe idx that decides the pose, the centre before drift is
\* the centre of keyframe idx-1 (or (0.5, 0.5) for the first keyframe) at
\* t = start_time and the keyframe's own centre at every t >= start_time +
\* zoom_duration; outside the drift window it is the centre returned.
C24_PanEndpoints ==
    (camPc = "evaluated" /\ camIdx > 0) =>
        LET kf  == keyframes[camIdx]
            pan == PanCentre(camT, camIdx, keyframes, config)
        IN  /\ camT = kf.start_time =>
                  /\ pan = StartCentre
                  /\ <<camState.cx, camState.cy>> = StartCentre
            /\ camT >= kf.start_time + config.zoom_duration =>
                  /\ pan = <<kf.center_x, kf.center_y>>
                  /\ ~StrictlyInHold => <<camState.cx, camState.cy>> = <<kf.center_x, kf.center_y>>

\* the second keyframe starts after the first has ended: at its start the
\* centre is still the first keyframe's
C24_Witness ==
    /\ camPc = "evaluated" /\ camIdx = 2
    /\ camT = keyframes[2].start_time
    /\ keyframes[1].center_x # keyframes[2].center_x
    /\ keyframes[1].center_x # Half
    /\ camState.cx = keyframes[1].center_x


(***************************************************************************)
(* Claims about the ranges of the pose                                     *)
(***************************************************************************)
\* 0 <= q <= 1 for a rational q = n/d with d > 0
InUnitInterval(q) == q[1] >= 0 /\ q[1] <= q[2]

\* C29: the centre returned by the interpolator lies in [0, 1] x [0, 1] for
\* every log and every playback time.
C29_CentreInUnitSquare ==
    camPc = "evaluated" => InUnitInterval(camState.cx) /\ InUnitInterval(camState.cy)

\* C30: the zoom returned by the interpolator is at least 1.0 and at most
\* zoom_level at every playback time, inside and outside keyframe windows,
\* for full-length and for truncated keyframes.
C30_ZoomWithinLevel ==
    camPc = "evaluated" =>
        /\ camState.zoom[2] > 0
        /\ camState.zoom[1] >= camState.zoom[2]
        /\ camState.zoom[1] * config.zoom_level[2] <= config.zoom_level[1] * camState.zoom[2]

\* past the middle of a slow zoom-in that a later click will cut short, the
\* zoom is strictly between 1.0 and zoom_level
C30_Witness ==
    /\ camPc = "evaluated" /\ camIdx = 1
    /\ Len(keyframes) = 2
    /\ keyframes[1].end_time < zoom_in_end(keyframes[1], config)
    /\ 2 * (camT - keyframes[1].start_time) > config.zoom_duration
    /\ RLt(R(1), camState.zoom) /\ RLt(camState.zoom, config.zoom_level)


(***************************************************************************)
(* Claims about the live cursor position                                   *)
(***************************************************************************)
\* the position of event e divided by the recorded resolution
Normalised(e) == <<Norm(e.x, log.metadata.width), Norm(e.y, log.metadata.height)>>

\* the events at or before playback time t (ticks), and those after it
NotAfter(t) == {i \in 1..Len(log.events) : log.events[i].timestamp_ms * TicksPerSec <= t * MsPerSec}
After(t) == {i \in 1..Len(log.events) : log.events[i].timestamp_ms * TicksPerSec > t * MsPerSec}

\* linear interpolation by timestamp between events p and n at time t
Between(p, n, t) ==
    LET num == t * MsPerSec - p.timestamp_ms * TicksPerSec
        den == (n.timestamp_ms - p.timestamp_ms) * TicksPerSec
    IN  <<Norm(p.x * den + (n.x - p.x) * num, den * log.metadata.width),
          Norm(p.y * den + (n.y - p.y) * num, den * log.metadata.height)>>

\* the cursor position C28 describes
CursorByTimestamp(t) ==
    IF log.events = <<>> THEN <<Half, Half>>
    ELSE IF NotAfter(t) = {} THEN Normalised(log.events[1])
    ELSE IF After(t) = {} THEN Normalised(log.events[Len(log.events)])
    ELSE LET p == CHOOSE i \in NotAfter(t) : \A j \in NotAfter(t) : j <= i
             n == CHOOSE i \in After(t) : \A j \in After(t) : i <= j
         IN  Between(log.events[p], log.events[n], t)

\* C28: the live cursor reported with the pose of a keyframe is the linear
\* interpolation by timestamp between the last event at or before t and the
\* first event after t, the first or last event's position outside the span of
\* the log, normalised by the recorded resolution.
C28_CursorInterpolated ==
    (camPc = "evaluated" /\ camIdx > 0) =>
        <<camState.mouse_cx, camState.mouse_cy>> = CursorByTimestamp(camT)

LogTimeOrdered ==
    \A i, j \in 1..Len(log.events) :
        i < j => log.events[i].timestamp_ms <= log.events[j].timestamp_ms

\* the statement of C28 restricted to logs in timestamp order
CursorInterpolatedInOrderedLogs ==
    LogTimeOrdered => C28_CursorInterpolated

\* halfway between two events of an ordered log
CursorHalfwayReached ==
    /\ camPc = "evaluated" /\ camIdx > 0 /\ LogTimeOrdered
    /\ NotAfter(camT) # {} /\ After(camT) # {}
    /\ camState.mouse_cx # Normalised(log.events[1])[1]
    /\ camState.mouse_cx # Normalised(log.events[Len(log.events)])[1]


(***************************************************************************)
(* The hotkey toggle flag                                                  *)
(***************************************************************************)
\* variant: the flag is read but not cleared
load_without_clear(flag) == [returned |-> flag, after |-> flag]

\* HOTKEY_TOGGLE_REQUESTED.swap(false, SeqCst): one atomic step
swap_false(flag) == [returned |-> flag, after |-> FALSE]

InitHotkey ==
    /\ log = [metadata |-> Resolution, events |-> <<>>]
    /\ config = DefaultConfig
    /\ CamIdle /\ JobIdle /\ FileIdle /\ LoggerIdle /\ HealthIdle /\ HotkeyIdle /\ RecorderIdle

\* the hotkey-listener thread: a press of the toggle key
request_hotkey_toggle ==
    /\ Len(hkTrace) < MaxHotkeyOps
    /\ hotkeyFlag' = TRUE
    /\ hkTrace' = Append(hkTrace, "request")
    /\ UNCHANGED <<isRec, log, config, keyframes, camVars, jobVars,
                   fileVars, loggerVars, healthVars, recorderVars>>

\* the polling loop of the App: take the flag; on true a running recording is
\* stopped, and otherwise one is started, which start_recording may refuse
take_hotkey_toggle ==
    /\ Len(hkTrace) < MaxHotkeyOps
    /\ LET taken == swap_false(hotkeyFlag)
       IN  /\ hotkeyFlag' = taken.after
           /\ hkTrace' = Append(hkTrace, IF taken.returned THEN "take_true" ELSE "take_false")
           /\ IF ~taken.returned THEN isRec' = isRec
              ELSE IF isRec THEN isRec' = FALSE
              ELSE \E started \in BOOLEAN : isRec' = started
    /\ UNCHANGED <<log, config, keyframes, camVars, jobVars,
                   fileVars, loggerVars, healthVars, recorderVars>>

NextHotkey == request_hotkey_toggle \/ take_hotkey_toggle

SpecHotkey == InitHotkey /\ [][NextHotkey]_vars

\* a request was made before call k and no take since has returned true
RequestPendingAt(k) ==
    \E j \in 1..(k - 1) :
        /\ hkTrace[j] = "request"
        /\ \A m \in (j + 1)..(k - 1) : hkTrace[m] # "take_true"

CountOf(what) == Cardinality({k \in 1..Len(hkTrace) : hkTrace[k] = what})

\* C27: a take returns true exactly when a request was made since the last
\* take that returned true (or since start); no request is lost (while one is
\* unanswered the flag is set, so the next take answers it); any number of
\* requests between two takes produce one toggle.
C27_NoLostNoDoubleToggle ==
    /\ \A k \in 1..Len(hkTrace) :
          /\ hkTrace[k] = "take_true" => RequestPendingAt(k)
          /\ hkTrace[k] = "take_false" => ~RequestPendingAt(k)
    /\ hotkeyFlag <=> RequestPendingAt(Len(hkTrace) + 1)
    /\ CountOf("take_true") <= CountOf("request")
    /\ \A k \in 2..Len(hkTrace) :
          hkTrace[k] = "take_true" => hkTrace[k - 1] = "request"

\* two presses before one poll made one toggle, the next poll made none, and
\* a later press was answered by the poll after it
C27_Witness ==
    /\ hkTrace = <<"request", "request", "take_true", "take_false", "request", "take_true">>
    /\ ~hotkeyFlag /\ ~isRec


(***************************************************************************)
(* Claims about the processed-frame counter                                *)
(***************************************************************************)
\* the number of frames the decoder has yielded so far
DecodedFrames == Cardinality({i \in 1..Len(stream) : stream[i].kind = "frame"})

\* the frame_index values are 0, 1, 2, ... without gap or repeat
FrameIndexSequential == \A k \in 1..Len(telemetry) : telemetry[k].frame_index = k - 1

\* the job was abandoned inside the GPU path of its last decoded frame
AbortedInGpuPath == cause \in {"frame_layout", "gpu_frame"}

\* C31 as stated: the counter is the number of decoded frames, whichever path a
\* frame took and whatever its encode call returned; the frame_index values
\* are 0, 1, 2, ...; there are as many telemetry frames as encode calls.
C31_CounterPerDecodedFrame ==
    /\ processed = DecodedFrames
    /\ FrameIndexSequential
    /\ Len(telemetry) = Len(encCalls)

\* C31: the counter is the number of encode calls made, failed ones included,
\* and decode errors do not move it; there is one telemetry frame per decoded
\* frame, with frame_index 0, 1, 2, ...; counter, telemetry frames and decoded
\* frames agree, except after a job abandoned in the GPU path of a frame,
\* whose last decoded frame has a telemetry frame but no encode call and did
\* not advance the counter; a telemetry session that is saved has as many
\* frames as encode calls were made.
C31_CounterUnlessAbandoned ==
    /\ processed = Len(encCalls)
    /\ Len(telemetry) = DecodedFrames
    /\ FrameIndexSequential
    /\ processed = IF AbortedInGpuPath THEN DecodedFrames - 1 ELSE DecodedFrames
    /\ telemetryFile = "saved" => Len(telemetry) = Len(encCalls)

\* a finished job that skipped a decode error and counted a passthrough frame
\* and a composited frame, one of them with a failed encode call
C31_Witness ==
    /\ pc = "done" /\ result = "ok" /\ telemetryFile = "saved"
    /\ \E i \in 1..Len(stream) :
          stream[i].kind = "error" /\ ~contains_exhausted(stream[i].err)
    /\ processed = 2
    /\ \E i, j \in 1..Len(encCalls) :
          /\ encCalls[i].frame = "decoded" /\ encCalls[j].frame = "composited"
          /\ ~encCalls[i].ok \/ ~encCalls[j].ok

\* a job abandoned in the GPU path: a telemetry frame without encode call
C31_AbandonedInGpuPath ==
    /\ pc = "done" /\ AbortedInGpuPath
    /\ Len(telemetry) = Len(encCalls) + 1 /\ processed = DecodedFrames - 1


(***************************************************************************)
(* The screen recorder: the recording flag, the capture threads and the UI *)
(***************************************************************************)
\* a capture thread as std::thread::spawn leaves it.  st is the position of
\* the thread, encoder the Option field of its handler, encState what has
\* happened to the VideoEncoder, sent whether the handler is feeding frames to
\* it, capped whether the handler has seen the 300 seconds elapse, stopAsked
\* whether stop_recording was called while the session was live.
SpawnedSession ==
    [st |-> "spawned", encoder |-> "None", encState |-> "none",
     sent |-> FALSE, capped |-> FALSE, stopAsked |-> FALSE]

\* variant: the encoder is looked at but left in the handler
peek_encoder(opt) == [taken |-> opt, left |-> opt]

\* self.encoder.take()
take_encoder(opt) == [taken |-> opt, left |-> "None"]

\* `!is_recording() || self.start.elapsed().as_secs() >= self.max_duration_secs`
should_stop(flag, capped) == ~flag \/ capped

\* a capture thread younger than s has been spawned and has not stopped
NewerLive(s) == \E n \in (s + 1)..Len(sessions) : sessions[n].st \in {"spawned", "running"}

\* what set_recording(false) by the capture thread s adds to the facts
ClearFacts(s) == IF IS_RECORDING /\ NewerLive(s) THEN {"cleared_newer"} ELSE {}

\* what encoder.finish() on an encoder in state es adds to the facts
FinishFacts(es) == IF es = "open" THEN {} ELSE {"finished_twice"}

\* a handler that has left its frame loop keeps no frame state
Left(r, st) == [r EXCEPT !.st = st, !.sent = FALSE, !.stopAsked = FALSE]

\* the session started by the latest start_recording produces no more video
VideoEnded ==
    /\ sessions # <<>>
    /\ LET last == sessions[Len(sessions)]
       IN  last.encState \in {"finished", "failed"} \/ last.st \in {"failing", "ended"}

\* `if is_rec() { update_event_logging(); }`
sampling_enabled(ui, flag) == ui

InitRecorder ==
    /\ log = [metadata |-> Resolution, events |-> <<>>]
    /\ config = DefaultConfig
    /\ CamIdle /\ JobIdle /\ FileIdle /\ LoggerIdle /\ HealthIdle /\ HotkeyIdle
    /\ RecorderIdle

RecorderFrame == <<hotkeyFlag, hkTrace, log, config, keyframes, camVars, jobVars,
                   fileVars, loggerVars, healthVars>>

\* the record button and the hotkey branch of the polling loop: stop a
\* recording the UI believes to be running, or start one
toggle_recording(monitor_ok) ==
    /\ IF isRec
       THEN \* stop_event_logging(); stop_recording(); is_rec.set(false)
            /\ eventLogging' = FALSE
            /\ IS_RECORDING' = FALSE
            /\ isRec' = FALSE
            /\ sessions' = [n \in 1..Len(sessions) |->
                  IF sessions[n].st \in {"spawned", "running"}
                  THEN [sessions[n] EXCEPT !.stopAsked = TRUE] ELSE sessions[n]]
            /\ samples' = samples
       ELSE \* start_event_logging(..); start_recording(config)
            /\ Len(sessions) < MaxSessions
            /\ IS_RECORDING' = TRUE
            /\ samples' = {}
            /\ IF monitor_ok
               THEN /\ sessions' = Append(sessions, SpawnedSession)
                    /\ isRec' = TRUE /\ eventLogging' = TRUE
               ELSE \* Monitor::primary()? failed: stop_event_logging() cleans up
                    /\ sessions' = sessions
                    /\ isRec' = FALSE /\ eventLogging' = FALSE
    /\ UNCHANGED <<recFacts, RecorderFrame>>

\* one round of the polling loop in which the user clicked or moved the mouse
poll_update_event_logging ==
    /\ sampling_enabled(isRec, IS_RECORDING)
    /\ eventLogging
    /\ samples' = samples \cup {IF VideoEnded THEN "after_end" ELSE "live"}
    /\ UNCHANGED <<isRec, IS_RECORDING, sessions, eventLogging, recFacts, RecorderFrame>>

\* CaptureHandler::new on the capture thread
handler_new(s, created) ==
    /\ sessions[s].st = "spawned"
    /\ sessions' = [sessions EXCEPT ![s] =
          IF created THEN [@ EXCEPT !.st = "running", !.encoder = "Some", !.encState = "open"]
          ELSE Left(@, "failing")]
    /\ UNCHANGED <<isRec, IS_RECORDING, eventLogging, samples, recFacts, RecorderFrame>>

\* on_frame_arrived up to its return or up to set_recording(false)
on_frame_arrived(s, capped, finish_ok, send_ok, flush_ok) ==
    /\ sessions[s].st \in {"running", "stopped"}
    /\ sessions[s].capped => capped
    /\ LET r == sessions[s]
           late == IF r.st = "stopped" THEN {"dropped_late"} ELSE {}
       IN  IF should_stop(IS_RECORDING, capped)
           THEN LET t  == take_encoder(r.encoder)
                    r1 == [r EXCEPT !.capped = capped, !.encoder = t.left]
                IN  IF t.taken = "Some"
                    THEN /\ recFacts' = recFacts \cup FinishFacts(r.encState)
                         /\ sessions' = [sessions EXCEPT ![s] =
                               IF finish_ok
                               THEN Left([r1 EXCEPT !.encState = "finished"], "clearing")
                               ELSE Left([r1 EXCEPT !.encState = "failed"], "failing")]
                    ELSE /\ recFacts' = recFacts \cup late
                         /\ sessions' = [sessions EXCEPT ![s] = Left(r1, "clearing")]
           ELSE IF r.encoder = "Some"
                THEN IF send_ok
                     THEN /\ recFacts' = recFacts
                               \cup (IF r.stopAsked THEN {"sent_after_stop"} ELSE {})
                               \cup (IF r.encState # "open" THEN {"sent_after_finish"} ELSE {})
                          /\ sessions' = [sessions EXCEPT ![s] =
                                IF flush_ok THEN [r EXCEPT !.sent = TRUE]
                                ELSE Left(r, "failing")]
                     ELSE /\ recFacts' = recFacts
                          /\ sessions' = [sessions EXCEPT ![s] = Left(r, "failing")]
                ELSE /\ recFacts' = recFacts \cup late
                     /\ sessions' = sessions
    /\ UNCHANGED <<isRec, IS_RECORDING, eventLogging, samples, RecorderFrame>>

\* capture_control.stop(); set_recording(false); return Ok(())
on_frame_clear(s) ==
    /\ sessions[s].st = "clearing"
    /\ IS_RECORDING' = FALSE
    /\ recFacts' = recFacts \cup ClearFacts(s)
    /\ sessions' = [sessions EXCEPT ![s].st = "stopped"]
    /\ UNCHANGED <<isRec, eventLogging, samples, RecorderFrame>>

\* on_closed
on_closed(s, finish_ok) ==
    /\ sessions[s].st \in {"running", "stopped"}
    /\ LET r  == sessions[s]
           t  == take_encoder(r.encoder)
           r1 == [r EXCEPT !.encoder = t.left]
       IN  IF t.taken = "Some" /\ ~finish_ok
           THEN /\ sessions' = [sessions EXCEPT ![s] =
                      Left([r1 EXCEPT !.encState = "failed"], "failing")]
                /\ recFacts' = recFacts \cup FinishFacts(r.encState)
                /\ IS_RECORDING' = IS_RECORDING
           ELSE /\ sessions' = [sessions EXCEPT ![s] =
                      Left([r1 EXCEPT !.encState = IF t.taken = "Some" THEN "finished" ELSE @],
                           "closed")]
                /\ recFacts' = recFacts \cup ClearFacts(s)
                      \cup (IF t.taken = "Some" THEN FinishFacts(r.encState) ELSE {})
                /\ IS_RECORDING' = FALSE
    /\ UNCHANGED <<isRec, eventLogging, samples, RecorderFrame>>

\* CaptureHandler::start returns on the capture thread and the handler is
\* dropped, with its encoder if it still holds one: after an error the closure
\* prints it and calls set_recording(false)
capture_thread_exit(s) ==
    /\ sessions[s].st \in {"stopped", "closed", "failing"}
    /\ IF sessions[s].st = "failing"
       THEN IS_RECORDING' = FALSE /\ recFacts' = recFacts \cup ClearFacts(s)
       ELSE IS_RECORDING' = IS_RECORDING /\ recFacts' = recFacts
    /\ sessions' = [sessions EXCEPT ![s] =
          [@ EXCEPT !.st = "ended", !.capped = FALSE, !.encoder = "None",
                    !.encState = IF @ = "open" THEN "dropped" ELSE @]]
    /\ UNCHANGED <<isRec, eventLogging, samples, RecorderFrame>>

NextRecorder ==
    \/ \E monitor_ok \in BOOLEAN : toggle_recording(monitor_ok)
    \/ poll_update_event_logging
    \/ \E s \in 1..Len(sessions) :
          \/ \E created \in BOOLEAN : handler_new(s, created)
          \/ \E capped, finish_ok, send_ok, flush_ok \in BOOLEAN :
                on_frame_arrived(s, capped, finish_ok, send_ok, flush_ok)
          \/ on_frame_clear(s)
          \/ \E finish_ok \in BOOLEAN : on_closed(s, finish_ok)
          \/ capture_thread_exit(s)

SpecRecorder == InitRecorder /\ [][NextRecorder]_vars


(***************************************************************************)
(* Claims about the recorder                                               *)
(***************************************************************************)
\* the capture threads whose handler is feeding frames to an encoder
Sending == {s \in 1..Len(sessions) :
               sessions[s].st = "running" /\ sessions[s].encoder = "Some" /\ sessions[s].sent}

\* C32 as stated: a session that was running when stop_recording was called
\* sends no further frame, even if start_recording is called before its next
\* frame; never are two handlers feeding encoders; a capture thread never
\* clears the recording flag while a newer session is live.
C32_OneSessionAtATime ==
    /\ "sent_after_stop" \notin recFacts
    /\ Cardinality(Sending) <= 1
    /\ "cleared_newer" \notin recFacts

\* the parts of C32 one by one
NoFrameSentAfterStop == "sent_after_stop" \notin recFacts
AtMostOneSending == Cardinality(Sending) <= 1
NewerFlagNeverCleared == "cleared_newer" \notin recFacts

\* the handler s has returned from a callback in which it saw the recording
\* flag false or the 300 seconds elapsed
ObservedStop(s) ==
    \/ sessions[s].st = "stopped"
    \/ sessions[s].st = "failing" /\ sessions[s].capped

\* C33 as stated: an encoder is finished at most once and gets no frame after
\* that; once a handler has observed the flag false or the cap, the recording
\* flag is false and every later frame is dropped.
C33_FlagFalseOnceObserved ==
    /\ "finished_twice" \notin recFacts
    /\ "sent_after_finish" \notin recFacts
    /\ \A s \in 1..Len(sessions) :
          ObservedStop(s) => ~IS_RECORDING /\ sessions[s].encoder = "None"

\* the same for behaviours with one capture session
FlagFalseOnceObservedAlone ==
    Len(sessions) = 1 => C33_FlagFalseOnceObserved

\* C33: an encoder is finished at most once and gets no frame after that;
\* from the callback that observes the flag false or the cap on, the handler
\* holds no encoder, so every later frame is dropped; that callback stores
\* false in the recording flag before it returns Ok, and when encoder.finish()
\* fails it returns the error without storing and the flag is cleared when
\* the capture thread ends.
C33_EncoderFinishedOnce ==
    /\ [](/\ "finished_twice" \notin recFacts
          /\ "sent_after_finish" \notin recFacts
          /\ \A s \in 1..Len(sessions) :
                /\ sessions[s].encoder = "Some" <=> sessions[s].encState = "open"
                /\ (ObservedStop(s) \/ sessions[s].st \in {"clearing", "closed"})
                      => sessions[s].encoder = "None")
    /\ [][\A s \in 1..Len(sessions) :
             (Len(sessions') = Len(sessions) /\ sessions'[s].st # sessions[s].st) =>
                 /\ sessions'[s].st \in {"stopped", "closed"} => ~IS_RECORDING'
                 /\ (sessions[s].st = "failing" /\ sessions'[s].st = "ended")
                       => ~IS_RECORDING'
                 /\ sessions'[s].encoder = "Some" => sessions[s].st \in {"spawned", "running"}
         ]_vars

\* a handler that finished its encoder on seeing the flag false has dropped a
\* later frame, while another handler lost its encoder to a failed finish
C33_Witness ==
    /\ "dropped_late" \in recFacts
    /\ \E s \in 1..Len(sessions) :
          sessions[s].encState = "finished" /\ sessions[s].st = "stopped"
    /\ \E s \in 1..Len(sessions) : sessions[s].encState = "failed"

\* a handler saw the cap, its finish failed, and the flag is still set
CapSeenFlagStillSet ==
    /\ Len(sessions) = 1 /\ sessions[1].st = "failing" /\ sessions[1].capped
    /\ IS_RECORDING

\* some capture thread is about to record or recording
SessionRecording ==
    \E s \in 1..Len(sessions) :
        \/ sessions[s].st = "spawned"
        \/ sessions[s].st = "running" /\ sessions[s].encoder = "Some"

\* C34 as stated: while is_rec is true a capture session is recording, and no
\* event is sampled after the video of the session has ended.
C34_SamplingStopsWithRecorder ==
    /\ isRec => SessionRecording
    /\ "after_end" \notin samples

\* the recorder stopped at the cap and an event was sampled afterwards
SampledAfterCap ==
    /\ isRec /\ ~IS_RECORDING
    /\ Len(sessions) = 1 /\ sessions[1].capped /\ sessions[1].st = "stopped"
    /\ "after_end" \in samples


(***************************************************************************)
(* Claims about click detection and the life cycle of the event logger     *)
(***************************************************************************)
\* the step is an update that pushed a Click
ClickPushed ==
    /\ logger # <<>> /\ logger' # <<>>
    /\ \E k \in (Len(logger[1].events) + 1)..Len(logger'[1].events) :
          logger'[1].events[k].kind = "Click"

\* the step is an update that saw a button down after an update (or the
\* start) that saw none
PressSeen ==
    /\ logger # <<>> /\ logger' # <<>>
    /\ some_flag_set(logger'[1].last_button_pressed)
    /\ ~some_flag_set(logger[1].last_button_pressed)

\* the step is an update that got a vector with slots after one without
SlotsAppeared ==
    /\ logger # <<>> /\ logger' # <<>>
    /\ logger'[1].last_button_pressed # <<>>
    /\ logger[1].last_button_pressed = <<>>

\* C35 as stated: an update pushes a Click exactly when it observes some
\* button pressed and the update before it (or the start) observed none.
C35_ClickOnPress == [][ClickPushed <=> PressSeen]_vars

\* what the logger does: it pushes a Click exactly when button_pressed
\* is non-empty after having been empty
ClickWhenSlotsAppear == [][ClickPushed <=> SlotsAppeared]_vars

\* a Click was logged by an update that saw no button down
ClickWithoutPress ==
    /\ logger # <<>>
    /\ Len(logger[1].events) = 1 /\ logger[1].events[1].kind = "Click"
    /\ logger[1].last_button_pressed = <<FALSE, FALSE>>

\* the step is a call of stop_event_logging on a stopped logger
StopOfStopped == logger = <<>> /\ logger' = <<>> /\ returned' # returned

\* C36: a logger comes into being only by a start and then holds no event, so
\* an update of a stopped logger appends nothing; while started the log
\* changes only by appending, or by a start that empties it; a stop returns
\* the events of the log as they stand, which are those appended since the last
\* start, and leaves the logger stopped; a stop of a stopped logger returns
\* the empty list.
C36_LoggerLifeCycle ==
    /\ [][(logger = <<>> /\ logger' # <<>>) =>
            logger'[1].events = <<>> /\ logger'[1].start_time = now]_vars
    /\ [][(logger # <<>> /\ logger' # <<>>) =>
            \/ /\ Len(logger'[1].events) >= Len(logger[1].events)
               /\ SubSeq(logger'[1].events, 1, Len(logger[1].events)) = logger[1].events
               /\ logger'[1].start_time = logger[1].start_time
               /\ returned' = returned
            \/ /\ logger'[1].events = <<>> /\ logger'[1].start_time = now
               /\ returned' = returned]_vars
    /\ [][(logger # <<>> /\ logger' = <<>>) => returned' = logger[1].events]_vars
    /\ [][logger = <<>> => (returned' = returned \/ returned' = <<>>)]_vars
    /\ [][returned' # returned => logger' = <<>>]_vars

\* a stop has returned the two events of one session, and a session started
\* later holds one event of its own, stamped from its own start
C36_Witness ==
    /\ Len(returned) = 2
    /\ logger # <<>> /\ logger[1].start_time > 0
    /\ Len(logger[1].events) = 1
    /\ logger[1].events[1].timestamp_ms < returned[2].timestamp_ms


(***************************************************************************)
(* Claims about the weight of the cursor-follow drift                      *)
(***************************************************************************)
\* the keyframe has no hold window: it was cut at or before its zoom_in_end,
\* or the hold lasts no time
WithoutHold(kf) ==
    kf.end_time <= zoom_in_end(kf, config) \/ config.hold_duration = 0

\* C37: whenever the cursor-follow drift is applied for the keyframe that
\* decides the pose, hold_end - zoom_in_end is above 0 and the follow weight
\* is above 0 and at most 0.35; for a keyframe cut at or before zoom_in_end,
\* or with hold_duration = 0, the drift is not applied (the centre returned is
\* the pan centre).
C37_FollowWeightBounded ==
    (camPc = "evaluated" /\ camIdx > 0) =>
        LET kf    == keyframes[camIdx]
            drift == DriftApplies(camT, kf, config)
        IN  /\ drift =>
                  LET fw == follow_weight(camT, kf, config)
                  IN  /\ hold_end(kf, config) - zoom_in_end(kf, config) > 0
                      /\ RLt(R(0), fw) /\ RLe(fw, <<35, 100>>)
            /\ WithoutHold(kf) =>
                  /\ ~drift
                  /\ <<camState.cx, camState.cy>> = PanCentre(camT, camIdx, keyframes, config)

\* one tick into a hold the drift is fading in: its weight is below 0.35 and
\* it has moved the centre off the pan centre
C37_Witness ==
    /\ camPc = "evaluated" /\ camIdx > 0
    /\ DriftApplies(camT, keyframes[camIdx], config)
    /\ RLt(follow_weight(camT, keyframes[camIdx], config), <<35, 100>>)
    /\ <<camState.cx, camState.cy>> # PanCentre(camT, camIdx, keyframes, config)

\* a keyframe cut during its zoom-in is evaluated between its start and its end
C37_CutBeforeHold ==
    /\ camPc = "evaluated" /\ camIdx > 0
    /\ keyframes[camIdx].end_time < zoom_in_end(keyframes[camIdx], config)
    /\ camT > keyframes[camIdx].start_time

=============================================================================
